---- MODULE Spec2Model ----
(***************************************************************************)
(* State-machine model of the Cortex engine: the identity service with its *)
(* in-memory storage, the failure memory service, the distilled memory     *)
(* service, the word-overlap similarity provider and the prepareContext    *)
(* pipeline that composes them.                                            *)
(***************************************************************************)
EXTENDS Integers, Sequences, FiniteSets, TLC

VARIABLES
    identities,   \* InMemoryIdentityStorage.identities: id -> Identity object
    versions,     \* InMemoryIdentityStorage.versions: id -> IdentityVersion[]
    heap,         \* the Value[] arrays identity objects point to: ref -> array
    patterns,     \* InMemoryFailureStorage.patterns, in Map insertion order
    memories,     \* InMemoryDistilledStorage.memories, in Map insertion order
    uuid,         \* number of uuidv4() identifiers handed out, per kind
    calls,        \* async calls in flight: process -> frame at its await
    lastCall,     \* the call that completed last: operation and input
    result,       \* what that call returned (or that it threw)
    callLog,      \* the service calls the last prepareContext run made
    now,          \* Date.now(), in milliseconds
    config,       \* DistilledMemoryService.config
    lastDecayRun, \* history: when applyDecay last ran and what it saved
    lastRun       \* SandboxRunner: the output of the last sandbox run, if any

vars == <<identities, versions, heap, patterns, memories, uuid, calls,
          lastCall, result, callLog, now, config, lastDecayRun, lastRun>>

-----------------------------------------------------------------------------
(* Bounds of the model.                                                    *)

MaxIdentityCreates == 2
MaxVersion == 3
MaxPatternCreates == 2
MaxOccurrences == 2
MaxMemoryCreates == 2
MaxReinforcements == 1
MaxTicks == 3

-----------------------------------------------------------------------------
(* Optional values: undefined is the empty sequence, a present value x is  *)
(* the one-element sequence <<x>>.                                         *)

Undefined == <<>>
Some(x) == <<x>>
IsDefined(o) == o # <<>>
Get(o) == o[1]
OrElse(o, d) == IF o # <<>> THEN o[1] ELSE d

Last(s) == s[Len(s)]

\* Array.prototype.sort with a comparator: stable, so the result is the one
\* permutation that puts element j before element i when j is greater, or
\* when neither is greater and j came first.  greater[j][i] says that s[j]
\* sorts strictly before s[i].
StableSort(s, greater) ==
    LET n == Len(s)
        before(j, i) == greater[j][i] \/ (~greater[i][j] /\ j < i)
        pos(i) == 1 + Cardinality({j \in 1..n : j # i /\ before(j, i)})
    IN [k \in 1..n |-> s[CHOOSE i \in 1..n : pos(i) = k]]

-----------------------------------------------------------------------------
(* Text.  A string is modelled by its words in order, whether it carries   *)
(* leading or trailing whitespace (pad), the words keeping their case.     *)

Text(pad, words) == [pad |-> pad, words |-> words]

LowerWord(w) ==
    CASE w = "A" -> "a"
      [] w = "B" -> "b"
      [] w = "C" -> "c"
      [] OTHER -> w

ToLowerCase(t) == [t EXCEPT !.words = [i \in DOMAIN t.words |-> LowerWord(t.words[i])]]
Trim(t) == [t EXCEPT !.pad = FALSE]
\* s.trim().length === 0
IsBlank(t) == Trim(t).words = <<>>
\* normalized.split(/\s+/) as a Set: the empty string splits into [""]
SplitWords(t) ==
    IF t.words = <<>> THEN {""} ELSE {t.words[i] : i \in DOMAIN t.words}

\* Scores are exact fractions num/den with den > 0.
Frac(n, d) == [num |-> n, den |-> d]
FracGeq(a, b) == a.num * b.den >= b.num * a.den
FracGt(a, b) == a.num * b.den > b.num * a.den
FracMax(a, b) == IF FracGeq(a, b) THEN a ELSE b
FracAvg(a, b) == Frac(a.num * b.den + b.num * a.den, 2 * a.den * b.den)
\* a threshold given in hundredths
Hundredths(h) == Frac(h, 100)

ComputeSimilarity(textA, textB) ==
    LET normalizedA == Trim(ToLowerCase(textA))
        normalizedB == Trim(ToLowerCase(textB))
        wordsA == SplitWords(normalizedA)
        wordsB == SplitWords(normalizedB)
        overlap == Cardinality({w \in wordsA : w \in wordsB})
    IN IF normalizedA = normalizedB THEN Frac(1, 1)
       ELSE IF Cardinality(wordsA) = 0 \/ Cardinality(wordsB) = 0 THEN Frac(0, 1)
       ELSE Frac(2 * overlap, Cardinality(wordsA) + Cardinality(wordsB))

FindSimilar(query, candidates, threshold) ==
    LET scored == [i \in DOMAIN candidates |->
                     [index |-> i,
                      score |-> ComputeSimilarity(query, candidates[i]),
                      text |-> candidates[i]]]
        matches == SelectSeq(scored, LAMBDA m : FracGeq(m.score, threshold))
    \* matches.sort((a, b) => b.score - a.score)
    IN StableSort(matches, [j \in DOMAIN matches |-> [i \in DOMAIN matches |->
                               FracGt(matches[j].score, matches[i].score)]])

-----------------------------------------------------------------------------
(* Failure memory service (failure.service.ts, failure types).             *)

DuplicateThreshold == 80
BlockingThreshold == 70

\* Map.set(id, x): an existing key keeps its place, a new key goes last.
MapSet(store, x) ==
    IF \E i \in DOMAIN store : store[i].id = x.id
    THEN [i \in DOMAIN store |-> IF store[i].id = x.id THEN x ELSE store[i]]
    ELSE Append(store, x)
\* Map.delete(id)
MapDelete(store, id) == SelectSeq(store, LAMBDA x : x.id # id)
\* Map.get(id) ?? null, as an optional
MapGet(store, id) ==
    IF \E i \in DOMAIN store : store[i].id = id
    THEN Some(store[CHOOSE i \in DOMAIN store : store[i].id = id])
    ELSE Undefined

\* tags.sort(): the default order of strings; a tag is modelled by its rank
\* in that order.
SortTags(tags) ==
    StableSort(tags, [j \in DOMAIN tags |-> [i \in DOMAIN tags |-> tags[j] < tags[i]]])

ValidateRecordFailureInput(input) ==
    /\ ~IsBlank(input.pattern)
    /\ ~IsBlank(input.context)
    /\ input.severity \in {"hard", "soft"}
    /\ ~IsBlank(input.reason)

\* line 292: const newSeverity = input.severity === 'hard' ? 'hard' : existing.severity
NewSeverityInput(inputSeverity, existingSeverity) == inputSeverity
NewSeverityKeep(inputSeverity, existingSeverity) == existingSeverity
NewSeverity(inputSeverity, existingSeverity) ==
    IF inputSeverity = "hard" THEN "hard" ELSE existingSeverity

\* The pattern record() saves, computed from the listing it took: the most
\* similar stored pattern with its count raised, or a fresh pattern.
FailureRecordOutcomeStale(existingPatterns, input, freshId) ==
    LET existingTexts == [i \in DOMAIN existingPatterns |-> existingPatterns[i].pattern]
        similar == FindSimilar(input.pattern, existingTexts, Hundredths(DuplicateThreshold))
    IN IF Len(existingTexts) > 0 /\ Len(similar) > 0
       THEN LET existing == existingPatterns[similar[1].index]
            IN [existing EXCEPT !.occurrenceCount = existing.occurrenceCount + 1,
                                !.severity = NewSeverity(input.severity, existing.severity)]
       ELSE [active |-> TRUE,
             context |-> Trim(input.context),
             id |-> freshId,
             occurrenceCount |-> 1,
             pattern |-> Trim(input.pattern),
             reason |-> Trim(input.reason),
             severity |-> input.severity,
             tags |-> SortTags(OrElse(input.tags, <<>>))]
FailureRecordOutcome(existingPatterns, input, freshId) ==
    LET existingTexts == [i \in DOMAIN existingPatterns |-> existingPatterns[i].pattern]
        similar == FindSimilar(input.pattern, existingTexts, Hundredths(DuplicateThreshold))
    IN IF Len(existingTexts) > 0 /\ Len(similar) > 0
       THEN LET existing == existingPatterns[similar[1].index]
            IN [existing EXCEPT !.active = TRUE,
                                !.occurrenceCount = existing.occurrenceCount + 1,
                                !.severity = NewSeverity(input.severity, existing.severity)]
       ELSE [active |-> TRUE,
             context |-> Trim(input.context),
             id |-> freshId,
             occurrenceCount |-> 1,
             pattern |-> Trim(input.pattern),
             reason |-> Trim(input.reason),
             severity |-> input.severity,
             tags |-> SortTags(OrElse(input.tags, <<>>))]

\* lines 155-172: the score a pattern is matched with
EffectiveScoreAveraged(text, context, pattern) ==
    LET patternScore == ComputeSimilarity(text, pattern.pattern)
        contextScore == IF IsDefined(context)
                        THEN ComputeSimilarity(Get(context), pattern.context)
                        ELSE Frac(0, 1)
    IN IF IsDefined(context)
       THEN FracAvg(patternScore, contextScore)
       ELSE patternScore
EffectiveScore(text, context, pattern) ==
    LET patternScore == ComputeSimilarity(text, pattern.pattern)
        contextScore == IF IsDefined(context)
                        THEN ComputeSimilarity(Get(context), pattern.context)
                        ELSE Frac(0, 1)
    IN IF IsDefined(context)
       THEN FracMax(patternScore, FracAvg(patternScore, contextScore))
       ELSE patternScore

\* line 188: matchedPatterns.some((p) => p.severity === 'hard')
HasHardBlockEvery(matchedPatterns) ==
    \A i \in DOMAIN matchedPatterns : matchedPatterns[i].severity = "hard"
HasHardBlock(matchedPatterns) ==
    \E i \in DOMAIN matchedPatterns : matchedPatterns[i].severity = "hard"

\* line 191: matchedPatterns.sort((a, b) => b.occurrenceCount - a.occurrenceCount)
SortByOccurrenceSkipped(ps) == ps
SortByOccurrence(ps) ==
    StableSort(ps, [j \in DOMAIN ps |-> [i \in DOMAIN ps |->
                      ps[j].occurrenceCount > ps[i].occurrenceCount]])

NoMatch == [blocked |-> FALSE, matchedPatterns |-> <<>>, severity |-> "null"]

CheckBlocking(allPatterns, text, context) ==
    LET activePatterns == SelectSeq(allPatterns, LAMBDA p : p.active)
        matchedPatterns ==
            SelectSeq(activePatterns,
                      LAMBDA p : FracGeq(EffectiveScore(text, context, p),
                                         Hundredths(BlockingThreshold)))
        hasHardBlock == HasHardBlock(matchedPatterns)
    IN IF Len(activePatterns) = 0 THEN NoMatch
       ELSE IF Len(matchedPatterns) = 0 THEN NoMatch
       ELSE [blocked |-> hasHardBlock,
             matchedPatterns |-> SortByOccurrence(matchedPatterns),
             severity |-> IF hasHardBlock THEN "hard" ELSE "soft"]

\* getMatchingPatterns(), lines 237-253
GetMatchingPatternsAtDuplicateThreshold(allPatterns, text) ==
    LET activePatterns == SelectSeq(allPatterns, LAMBDA p : p.active)
        patternTexts == [i \in DOMAIN activePatterns |-> activePatterns[i].pattern]
        matches == FindSimilar(text, patternTexts, Hundredths(DuplicateThreshold))
    IN IF Len(activePatterns) = 0 THEN <<>>
       ELSE [k \in DOMAIN matches |-> activePatterns[matches[k].index]]
GetMatchingPatternsAll(allPatterns, text) ==
    LET matches == FindSimilar(text, [i \in DOMAIN allPatterns |-> allPatterns[i].pattern],
                               Hundredths(BlockingThreshold))
    IN IF Len(allPatterns) = 0 THEN <<>>
       ELSE [k \in DOMAIN matches |-> allPatterns[matches[k].index]]
GetMatchingPatterns(allPatterns, text) ==
    LET activePatterns == SelectSeq(allPatterns, LAMBDA p : p.active)
        patternTexts == [i \in DOMAIN activePatterns |-> activePatterns[i].pattern]
        matches == FindSimilar(text, patternTexts, Hundredths(BlockingThreshold))
    IN IF Len(activePatterns) = 0 THEN <<>>
       ELSE [k \in DOMAIN matches |-> activePatterns[matches[k].index]]

\* tags.every((tag) => p.tags.includes(tag))
IncludesAll(tags, wanted) ==
    \A k \in DOMAIN wanted : \E i \in DOMAIN tags : tags[i] = wanted[k]

\* FailureMemoryService.retrieve, lines 329-375, over
\* InMemoryFailureStorage.findBySeverity, findByTags and listAll
FailureRetrieveResult(allPatterns, query) ==
    LET tagged == IsDefined(query.tags) /\ Len(Get(query.tags)) > 0
        start == IF IsDefined(query.severity)
                 THEN SelectSeq(allPatterns,
                                LAMBDA p : p.severity = Get(query.severity) /\ p.active)
                 ELSE IF tagged
                 THEN SelectSeq(allPatterns, LAMBDA p : IncludesAll(p.tags, Get(query.tags)))
                 ELSE allPatterns
        byActive == IF IsDefined(query.active)
                    THEN SelectSeq(start, LAMBDA p : p.active = Get(query.active))
                    ELSE start
        byTags == IF tagged /\ IsDefined(query.severity)
                  THEN SelectSeq(byActive, LAMBDA p : IncludesAll(p.tags, Get(query.tags)))
                  ELSE byActive
        byCount == IF IsDefined(query.minOccurrences)
                   THEN SelectSeq(byTags,
                                  LAMBDA p : p.occurrenceCount >= Get(query.minOccurrences))
                   ELSE byTags
        threshold == OrElse(query.similarityThreshold, BlockingThreshold)
        matches == FindSimilar(Get(query.semanticQuery),
                               [i \in DOMAIN byCount |-> byCount[i].pattern],
                               Hundredths(threshold))
        ranked == IF IsDefined(query.semanticQuery) /\ Len(byCount) > 0
                  THEN [k \in DOMAIN matches |-> byCount[matches[k].index]]
                  ELSE byCount
    IN IF IsDefined(query.limit) /\ Get(query.limit) > 0
       THEN SubSeq(ranked, 1, IF Get(query.limit) <= Len(ranked)
                              THEN Get(query.limit) ELSE Len(ranked))
       ELSE ranked

-----------------------------------------------------------------------------
(* Distilled memory service (memory.service.ts).  Confidence and           *)
(* decayFactor are counted in hundredths, exactly; the rounding of         *)
(* floating-point arithmetic is not modelled.  Times are milliseconds.     *)

MemoryDuplicateThreshold == 80
MaxConfidence == 100
ReinforcementBoost == 10
DefaultConfidence == 50
RetrieveDefaultThreshold == 50

DecayFactorThreshold == 10
DecayIntervalMs == 86400000
DecayRate == 5
DeletionThreshold == 20

\* DEFAULT_DECAY_CONFIG
DefaultDecayConfig ==
    [decayFactorThreshold |-> DecayFactorThreshold,
     decayIntervalMs |-> DecayIntervalMs,
     decayRate |-> DecayRate,
     deletionThreshold |-> DeletionThreshold]

\* DEFAULT_SERVICE_CONFIG
DefaultServiceConfig ==
    [decayConfig |-> DefaultDecayConfig,
     duplicateThreshold |-> MemoryDuplicateThreshold,
     maxConfidence |-> MaxConfidence,
     reinforcementBoost |-> ReinforcementBoost]

\* the constructor, lines 133-141: the given fields override the defaults
ServiceConfig(maxConfidence, reinforcementBoost) ==
    [DefaultServiceConfig EXCEPT !.maxConfidence = maxConfidence,
                                 !.reinforcementBoost = reinforcementBoost]

MemoryTypes == {"lesson", "preference", "warning"}

ValidateCreateMemoryInput(input) ==
    /\ input.type \in MemoryTypes
    /\ ~IsBlank(input.content)
    /\ IsDefined(input.confidence) =>
         (Get(input.confidence) >= 0 /\ Get(input.confidence) <= 100)

Min(a, b) == IF a <= b THEN a ELSE b
Max(a, b) == IF a >= b THEN a ELSE b

\* reinforce(), lines 357-360
NewConfidenceUncapped(memory) == memory.confidence + config.reinforcementBoost
NewConfidence(memory) ==
    Min(config.maxConfidence, memory.confidence + config.reinforcementBoost)

\* reinforce(), lines 362-369: the record saved for a loaded memory
Reinforced(memory) ==
    [memory EXCEPT !.confidence = NewConfidence(memory),
                   !.decayFactor = 100,
                   !.lastDecayAt = now,
                   !.reinforcementCount = memory.reinforcementCount + 1]

\* reinforce(), lines 373-378
ReinforcementResult(memory, updated) ==
    [memory |-> updated,
     newConfidence |-> updated.confidence,
     previousConfidence |-> memory.confidence,
     previousReinforcementCount |-> memory.reinforcementCount]

\* record(), lines 299-316: the stored memory to reinforce, if the listing
\* holds one similar enough, as an optional id
MostSimilarMemoryNone(existingMemories, input) == Undefined
MostSimilarMemoryLast(existingMemories, input) ==
    LET existingContents == [i \in DOMAIN existingMemories |-> existingMemories[i].content]
        similar == FindSimilar(input.content, existingContents,
                               Hundredths(config.duplicateThreshold))
    IN IF Len(existingContents) > 0 /\ Len(similar) > 0
       THEN Some(existingMemories[similar[Len(similar)].index].id)
       ELSE Undefined
MostSimilarMemory(existingMemories, input) ==
    LET existingContents == [i \in DOMAIN existingMemories |-> existingMemories[i].content]
        similar == FindSimilar(input.content, existingContents,
                               Hundredths(config.duplicateThreshold))
    IN IF Len(existingContents) > 0 /\ Len(similar) > 0
       THEN Some(existingMemories[similar[1].index].id)
       ELSE Undefined

\* record(), lines 319-332
NewMemory(input, freshId) ==
    [confidence |-> OrElse(input.confidence, DefaultConfidence),
     content |-> Trim(input.content),
     createdAt |-> now,
     decayFactor |-> 100,
     id |-> freshId,
     lastDecayAt |-> now,
     reinforcementCount |-> 0,
     tags |-> SortTags(OrElse(input.tags, <<>>)),
     type |-> input.type]

\* applyDecay(), lines 157-160
IsDueForDecayStrict(memory) ==
    now - memory.lastDecayAt > config.decayConfig.decayIntervalMs
IsDueForDecay(memory) ==
    now - memory.lastDecayAt >= config.decayConfig.decayIntervalMs

\* applyDecay(), lines 161-171: the record saved for a memory that is due
DecayedKeepingClock(memory) ==
    LET timeSinceDecay == now - memory.lastDecayAt
        decayCycles == timeSinceDecay \div config.decayConfig.decayIntervalMs
    IN [memory EXCEPT
          !.decayFactor = Max(0, memory.decayFactor
                                 - config.decayConfig.decayRate * decayCycles)]
Decayed(memory) ==
    LET timeSinceDecay == now - memory.lastDecayAt
        decayCycles == timeSinceDecay \div config.decayConfig.decayIntervalMs
    IN [memory EXCEPT
          !.decayFactor = Max(0, memory.decayFactor
                                 - config.decayConfig.decayRate * decayCycles),
          !.lastDecayAt = now]

\* applyDecay(): the store after the loop, and the ids it saved
ApplyDecay(allMemories) ==
    [store |-> [i \in DOMAIN allMemories |->
                  IF IsDueForDecay(allMemories[i])
                  THEN Decayed(allMemories[i]) ELSE allMemories[i]],
     decayed |-> {allMemories[i].id : i \in {k \in DOMAIN allMemories :
                                               IsDueForDecay(allMemories[k])}}]

\* cleanup(), lines 195-199; confidence * decayFactor is in ten-thousandths
ShouldDeleteWeak(memory) ==
    \/ memory.confidence < config.decayConfig.deletionThreshold
    \/ memory.decayFactor < config.decayConfig.decayFactorThreshold
ShouldDelete(memory) ==
    LET effectiveStrength == memory.confidence * memory.decayFactor
    IN \/ memory.confidence < config.decayConfig.deletionThreshold
       \/ memory.decayFactor < config.decayConfig.decayFactorThreshold
       \/ effectiveStrength < config.decayConfig.deletionThreshold * 100

\* cleanup(): the store after the loop, and the ids returned
Cleanup(allMemories) ==
    LET deleted == SelectSeq(allMemories, ShouldDelete)
    IN [store |-> SelectSeq(allMemories, LAMBDA m : ~ShouldDelete(m)),
        deletedIds |-> [i \in DOMAIN deleted |-> deleted[i].id]]

\* Array.from(new Set(xs)): the first occurrence of each element, in order
Dedupe(xs) ==
    LET firsts == {i \in DOMAIN xs : \A j \in 1..(i - 1) : xs[j] # xs[i]}
        nth(k) == CHOOSE i \in firsts : Cardinality({j \in firsts : j < i}) = k - 1
    IN [k \in 1..Cardinality(firsts) |-> xs[nth(k)]]

\* merge(), lines 262-274: the merged record
MergedTags(keep, remove) == SortTags(Dedupe(keep.tags \o remove.tags))

MergedKeepingCreatedAt(keep, remove) ==
    [keep EXCEPT
       !.confidence = Min(config.maxConfidence,
                          Max(keep.confidence, remove.confidence)
                            + config.reinforcementBoost),
       !.reinforcementCount = keep.reinforcementCount + remove.reinforcementCount + 1,
       !.tags = MergedTags(keep, remove)]
Merged(keep, remove) ==
    [keep EXCEPT
       !.confidence = Min(config.maxConfidence,
                          Max(keep.confidence, remove.confidence)
                            + config.reinforcementBoost),
       !.createdAt = IF keep.createdAt < remove.createdAt
                     THEN keep.createdAt ELSE remove.createdAt,
       !.reinforcementCount = keep.reinforcementCount + remove.reinforcementCount + 1,
       !.tags = MergedTags(keep, remove)]

HasAllTags(tags, wanted) ==
    \A k \in DOMAIN wanted : \E i \in DOMAIN tags : tags[i] = wanted[k]

SliceAll(s, n) == s
Slice(s, n) == SubSeq(s, 1, Min(n, Len(s)))

\* retrieve(), lines 386-435: the store a retrieve call leaves; it only
\* reads, the memories it returns are not saved back
RetrieveReinforces(allMemories, retrieved) ==
    [i \in DOMAIN allMemories |->
       IF \E k \in DOMAIN retrieved : retrieved[k].id = allMemories[i].id
       THEN Reinforced(allMemories[i]) ELSE allMemories[i]]
RetrieveLeaves(allMemories, retrieved) == allMemories

Retrieve(allMemories, query) ==
    LET tagged == IsDefined(query.tags) /\ Len(Get(query.tags)) > 0
        start == IF IsDefined(query.type)
                 THEN SelectSeq(allMemories, LAMBDA m : m.type = Get(query.type))
                 ELSE IF tagged
                 THEN SelectSeq(allMemories, LAMBDA m : HasAllTags(m.tags, Get(query.tags)))
                 ELSE allMemories
        byTags == IF tagged /\ IsDefined(query.type)
                  THEN SelectSeq(start, LAMBDA m : HasAllTags(m.tags, Get(query.tags)))
                  ELSE start
        byConfidence == IF IsDefined(query.minConfidence)
                        THEN SelectSeq(byTags, LAMBDA m : m.confidence >= Get(query.minConfidence))
                        ELSE byTags
        threshold == OrElse(query.similarityThreshold, RetrieveDefaultThreshold)
        similar == FindSimilar(Get(query.semanticQuery),
                               [i \in DOMAIN byConfidence |-> byConfidence[i].content],
                               Hundredths(threshold))
        ranked == IF IsDefined(query.semanticQuery) /\ Len(byConfidence) > 0
                  THEN [k \in DOMAIN similar |-> byConfidence[similar[k].index]]
                  ELSE byConfidence
    IN [memories |-> IF IsDefined(query.limit) /\ Get(query.limit) > 0
                     THEN Slice(ranked, Get(query.limit))
                     ELSE ranked,
        totalCount |-> Len(ranked)]

-----------------------------------------------------------------------------
(* Identity service (identity.service.ts, schema.ts).                      *)

ValidRiskPostures == {"conservative", "moderate", "aggressive"}

\* s.trim().length === 0 for the short strings of an identity
IsBlankString(s) == s \in {"", " "}

ValidateValue(value) ==
    /\ ~IsBlankString(value.name)
    /\ ~IsBlankString(value.description)
    /\ value.priority >= 0

ValidateInvariant(invariant) ==
    /\ ~IsBlankString(invariant.description)
    /\ ~IsBlankString(invariant.rule)
    /\ ~IsBlankString(invariant.rationale)

ValidateStyleConstraint(constraint) ==
    /\ ~IsBlankString(constraint.aspect)
    /\ ~IsBlankString(constraint.constraint)

ValidateCreateInput(input) ==
    /\ ~IsBlankString(input.name)
    /\ input.riskPosture \in ValidRiskPostures
    /\ \A i \in DOMAIN input.values : ValidateValue(input.values[i])
    /\ \A i \in DOMAIN input.invariants : ValidateInvariant(input.invariants[i])
    /\ \A i \in DOMAIN input.styleConstraints :
           ValidateStyleConstraint(input.styleConstraints[i])

ValidateUpdateInputLax(input) ==
    /\ IsDefined(input.riskPosture) => Get(input.riskPosture) \in ValidRiskPostures
    /\ IsDefined(input.values) =>
           \A i \in DOMAIN Get(input.values) : ValidateValue(Get(input.values)[i])
    /\ IsDefined(input.invariants) =>
           \A i \in DOMAIN Get(input.invariants) : ValidateInvariant(Get(input.invariants)[i])
    /\ IsDefined(input.styleConstraints) =>
           \A i \in DOMAIN Get(input.styleConstraints) :
               ValidateStyleConstraint(Get(input.styleConstraints)[i])
ValidateUpdateInput(input) ==
    /\ ~IsBlankString(input.changeReason)
    /\ IsDefined(input.riskPosture) => Get(input.riskPosture) \in ValidRiskPostures
    /\ IsDefined(input.values) =>
           \A i \in DOMAIN Get(input.values) : ValidateValue(Get(input.values)[i])
    /\ IsDefined(input.invariants) =>
           \A i \in DOMAIN Get(input.invariants) : ValidateInvariant(Get(input.invariants)[i])
    /\ IsDefined(input.styleConstraints) =>
           \A i \in DOMAIN Get(input.styleConstraints) :
               ValidateStyleConstraint(Get(input.styleConstraints)[i])

\* validateIdentity: the identity object with its values array
ValidateIdentity(identity, values) ==
    /\ identity.version >= 1
    /\ ~IsBlankString(identity.name)
    /\ identity.riskPosture \in ValidRiskPostures
    /\ \A i \in DOMAIN values : ValidateValue(values[i])
    /\ \A i \in DOMAIN identity.invariants : ValidateInvariant(identity.invariants[i])
    /\ \A i \in DOMAIN identity.styleConstraints :
           ValidateStyleConstraint(identity.styleConstraints[i])

\* xs.map((x) => ({...x, id: uuidv4()})): element i gets identifier base + i
WithIds(xs, base) ==
    [i \in DOMAIN xs |-> [id |-> base + i] @@ xs[i]]

\* a fresh place for a new array
NewRef(hp) == CHOOSE r \in 1..(Cardinality(DOMAIN hp) + 1) : r \notin DOMAIN hp

\* create(), lines 118-138: the identity object; its values array lives at ref
NewIdentity(input, id, ref, base) ==
    [description |-> input.description,
     id |-> id,
     invariants |-> WithIds(input.invariants, base),
     name |-> input.name,
     riskPosture |-> input.riskPosture,
     styleConstraints |-> WithIds(input.styleConstraints, base + Len(input.invariants)),
     values |-> ref,
     version |-> 1]

NewIdentityValues(input, base) ==
    WithIds(input.values, base + Len(input.invariants) + Len(input.styleConstraints))

\* create(), lines 150-156
InitialVersionCreated(identity) ==
    [changeReason |-> "created",
     identityId |-> identity.id,
     snapshot |-> identity,
     version |-> 1]
InitialVersion(identity) ==
    [changeReason |-> "initial",
     identityId |-> identity.id,
     snapshot |-> identity,
     version |-> 1]

\* update(), line 246
NextVersionSame(existing) == existing.version
NextVersion(existing) == existing.version + 1

\* update(), lines 223-247: a new object; an omitted array is the existing
\* array itself, a supplied one is a new array (at ref for the values)
UpdatedIdentity(existing, input, ref, base) ==
    LET invs == OrElse(input.invariants, <<>>)
        scs == OrElse(input.styleConstraints, <<>>)
    IN [existing EXCEPT
          !.description = IF IsDefined(input.description)
                          THEN input.description ELSE existing.description,
          !.invariants = IF IsDefined(input.invariants)
                         THEN WithIds(invs, base) ELSE existing.invariants,
          !.riskPosture = OrElse(input.riskPosture, existing.riskPosture),
          !.styleConstraints = IF IsDefined(input.styleConstraints)
                               THEN WithIds(scs, base + Len(invs))
                               ELSE existing.styleConstraints,
          !.values = IF IsDefined(input.values) THEN ref ELSE existing.values,
          !.version = NextVersion(existing)]

UpdatedIdentityValuesReused(input, base) == WithIds(Get(input.values), 0)
UpdatedIdentityValues(input, base) ==
    WithIds(Get(input.values),
            base + Len(OrElse(input.invariants, <<>>))
                 + Len(OrElse(input.styleConstraints, <<>>)))

\* the number of uuidv4() calls update() makes for nested elements
UpdateIdCount(input) ==
    Len(OrElse(input.invariants, <<>>)) + Len(OrElse(input.styleConstraints, <<>>))
    + Len(OrElse(input.values, <<>>))

\* update(), lines 259-265
UpdateVersion(updated, input) ==
    [changeReason |-> input.changeReason,
     identityId |-> updated.id,
     snapshot |-> updated,
     version |-> updated.version]

\* InMemoryIdentityStorage.saveVersion
SaveVersion(vers, version) ==
    LET id == version.identityId
        list == IF id \in DOMAIN vers THEN vers[id] ELSE <<>>
    IN [i \in DOMAIN vers \cup {id} |-> IF i = id THEN Append(list, version) ELSE vers[i]]

\* InMemoryIdentityStorage.save
SaveIdentity(idents, identity) ==
    [i \in DOMAIN idents \cup {identity.id} |->
        IF i = identity.id THEN identity ELSE idents[i]]

\* InMemoryIdentityStorage.delete: identities.delete(id), versions.delete(id)
DeleteIdentity(idents, id) == [i \in DOMAIN idents \ {id} |-> idents[i]]
DeleteVersionsKept(vers, id) == vers
DeleteVersions(vers, id) == [i \in DOMAIN vers \ {id} |-> vers[i]]

\* InMemoryIdentityStorage.load
LoadIdentity(idents, id) == IF id \in DOMAIN idents THEN Some(idents[id]) ELSE Undefined

\* InMemoryIdentityStorage.getVersions
GetVersions(vers, id) == IF id \in DOMAIN vers THEN vers[id] ELSE <<>>

\* InMemoryIdentityStorage.getVersion, as an optional
GetVersion(vers, id, n) ==
    LET list == GetVersions(vers, id)
    IN IF \E i \in DOMAIN list : list[i].version = n
       THEN Some(list[CHOOSE i \in DOMAIN list :
                        /\ list[i].version = n
                        /\ \A j \in 1..(i - 1) : list[j].version # n])
       ELSE Undefined

\* The arrays some stored object still points to; the others are garbage.
LiveRefs(idents, vers) ==
    {idents[i].values : i \in DOMAIN idents}
    \cup UNION {{vers[i][k].snapshot.values : k \in DOMAIN vers[i]} : i \in DOMAIN vers}

-----------------------------------------------------------------------------
(* Engine (engine.service.ts, engine types).                               *)

DefaultMemoryLimit == 10
DefaultMinConfidence == 30
DefaultSimilarityThreshold == 50

FallbackReason == Text(FALSE, <<"Matched", "hard-block", "failure", "pattern">>)

\* line 68: input.failureOptions?.skipCheck === true
SkipFailureCheckNever(input) == FALSE
SkipFailureCheck(input) == input.skipCheck = Some(TRUE)

\* line 75: if (!skipFailureCheck && blockingResult.blocked)
EarlyReturnNever(skipFailureCheck, blockingResult) == FALSE
EarlyReturn(skipFailureCheck, blockingResult) ==
    ~skipFailureCheck /\ blockingResult.blocked

Block(p) == [occurrenceCount |-> p.occurrenceCount, pattern |-> p.pattern, reason |-> p.reason]

BuildFailureContext(blockingResult) ==
    LET matched == blockingResult.matchedPatterns
        hard == SelectSeq(matched, LAMBDA p : p.severity = "hard")
        soft == SelectSeq(matched, LAMBDA p : p.severity = "soft")
    IN [blocked |-> blockingResult.blocked,
        blockReason |-> IF blockingResult.blocked /\ Len(hard) > 0
                        THEN Some(hard[1].reason) ELSE Undefined,
        hardBlocks |-> [i \in DOMAIN hard |-> Block(hard[i])],
        softBlocks |-> [i \in DOMAIN soft |-> Block(soft[i])]]

\* lines 199-200: identity.values.sort((a, b) => b.priority - a.priority),
\* which sorts the array in place and returns it
SortByPriority(values) ==
    StableSort(values, [j \in DOMAIN values |-> [i \in DOMAIN values |->
                          values[j].priority > values[i].priority]])

\* buildIdentityContext, given the values array after its sort
BuildIdentityContext(identity, sortedValues) ==
    [description |-> identity.description,
     invariants |-> [i \in DOMAIN identity.invariants |->
                       [rationale |-> identity.invariants[i].rationale,
                        rule |-> identity.invariants[i].rule]],
     name |-> identity.name,
     riskPosture |-> identity.riskPosture,
     styleConstraints |-> [i \in DOMAIN identity.styleConstraints |->
                             [aspect |-> identity.styleConstraints[i].aspect,
                              constraint |-> identity.styleConstraints[i].constraint]],
     values |-> [i \in DOMAIN sortedValues |->
                   [description |-> sortedValues[i].description,
                    name |-> sortedValues[i].name,
                    priority |-> sortedValues[i].priority]]]

MemoryViewFresh(ms) ==
    LET fresh == SelectSeq(ms, LAMBDA m : ~IsDueForDecay(m))
    IN [i \in DOMAIN fresh |-> [confidence |-> fresh[i].confidence, content |-> fresh[i].content]]
MemoryView(ms) == [i \in DOMAIN ms |-> [confidence |-> ms[i].confidence, content |-> ms[i].content]]

BuildMemoryContext(lessons, preferences, warnings) ==
    [lessons |-> MemoryView(lessons),
     preferences |-> MemoryView(preferences),
     warnings |-> MemoryView(warnings)]

\* One run of prepareContext from the given stores: what it returns, the
\* service calls it makes in order, and the heap and the memory store it
\* leaves.
PrepareContextRun(idents, hp, pats, mems, input) ==
    LET loaded == LoadIdentity(idents, input.identityId)
        identity == Get(loaded)
        skipFailureCheck == SkipFailureCheck(input)
        blockingResult == CheckBlocking(pats, input.query, input.context)
        memoryLimit == OrElse(input.limitPerType, DefaultMemoryLimit)
        minConfidence == OrElse(input.minConfidence, DefaultMinConfidence)
        similarityThreshold == OrElse(input.similarityThreshold, DefaultSimilarityThreshold)
        retrieved(type) ==
            Retrieve(mems, [limit |-> Some(memoryLimit),
                            minConfidence |-> Some(minConfidence),
                            semanticQuery |-> Some(input.query),
                            similarityThreshold |-> Some(similarityThreshold),
                            tags |-> Undefined,
                            type |-> Some(type)]).memories
        lessons == retrieved("lesson")
        preferences == retrieved("preference")
        warnings == retrieved("warning")
        sortedValues == SortByPriority(hp[identity.values])
    IN IF ~IsDefined(loaded)
       THEN [result |-> [blocked |-> FALSE,
                         error |-> "Identity not found",
                         success |-> FALSE],
             log |-> <<"identity.load">>,
             heap |-> hp,
             memories |-> mems]
       ELSE IF EarlyReturn(skipFailureCheck, blockingResult)
       THEN [result |-> [blocked |-> TRUE,
                         matchedPatterns |-> blockingResult.matchedPatterns,
                         reason |-> IF Len(blockingResult.matchedPatterns) > 0
                                    THEN blockingResult.matchedPatterns[1].reason
                                    ELSE FallbackReason,
                         success |-> FALSE],
             log |-> <<"identity.load", "failure.checkBlocking">>,
             heap |-> hp,
             memories |-> mems]
       ELSE [result |-> [context |->
                           [failureContext |-> BuildFailureContext(blockingResult),
                            identity |-> identity,
                            identityContext |-> BuildIdentityContext(identity, sortedValues),
                            memoryContext |-> BuildMemoryContext(lessons, preferences, warnings),
                            rawBlockingResult |-> blockingResult,
                            rawMemories |-> lessons \o preferences \o warnings],
                         success |-> TRUE],
             log |-> <<"identity.load", "failure.checkBlocking",
                       "memory.retrieve", "memory.retrieve", "memory.retrieve">>,
             heap |-> [hp EXCEPT ![identity.values] = sortedValues],
             memories |-> RetrieveLeaves(mems, lessons \o preferences \o warnings)]

-----------------------------------------------------------------------------
(* Inputs the operations are called with.                                  *)

TxtAB == Text(FALSE, <<"a", "b">>)
TxtPadAB == Text(TRUE, <<"A", "B">>)
TxtABC == Text(FALSE, <<"a", "b", "c">>)
TxtABCD == Text(FALSE, <<"a", "b", "c", "d">>)
TxtABCDE == Text(FALSE, <<"a", "b", "c", "d", "e">>)
TxtZ == Text(FALSE, <<"z">>)
TxtBlank == Text(TRUE, <<>>)
CtxX == Text(FALSE, <<"x">>)
ReasonOf(severity) == Text(FALSE, <<"reason", severity>>)

FailureInput(pattern, severity) ==
    [pattern |-> pattern, context |-> CtxX, severity |-> severity,
     reason |-> ReasonOf(severity), tags |-> Undefined]

FailureInputs ==
    {FailureInput(t, sev) : t \in {TxtPadAB, TxtABC, TxtABCDE}, sev \in {"hard", "soft"}}
    \cup {FailureInput(TxtBlank, "hard")}

QueryContexts == {Undefined, Some(CtxX)}

MemoryInput(type, content, confidence) ==
    [type |-> type, content |-> content, confidence |-> confidence, tags |-> Undefined]

Val(name, priority) == [name |-> name, description |-> "d", priority |-> priority]
Inv(rule) == [description |-> "d", rule |-> rule, rationale |-> "why"]
Style(aspect) == [aspect |-> aspect, constraint |-> "c"]

CreateInput(name, values) ==
    [name |-> name, description |-> Undefined, riskPosture |-> "moderate",
     values |-> values, invariants |-> <<Inv("r1")>>, styleConstraints |-> <<Style("tone")>>]

UpdateInput(changeReason, values, riskPosture) ==
    [changeReason |-> changeReason, description |-> Undefined, values |-> values,
     invariants |-> Undefined, styleConstraints |-> Undefined, riskPosture |-> riskPosture]

PrepareInput(identityId, query, context, skipCheck) ==
    [identityId |-> identityId, query |-> query, context |-> context,
     skipCheck |-> skipCheck, limitPerType |-> Undefined,
     minConfidence |-> Undefined, similarityThreshold |-> Undefined]

\* identifiers a caller may pass: those create() can have handed out, and
\* one it never hands out
IdentityIds == 1..(MaxIdentityCreates + 1)
PatternIds == 1..(MaxPatternCreates + 1)

-----------------------------------------------------------------------------
(* The state after construction (Cortex.create()) and the operations.      *)

Procs == {1, 2}
IdleFrame == [pc |-> "idle"]
Quiet == \A p \in Procs : calls[p].pc = "idle"

Threw(message) == [threw |-> TRUE, error |-> message]
Returned(value) == [threw |-> FALSE, value |-> value]

InitStores ==
    /\ identities = <<>>
    /\ versions = <<>>
    /\ heap = <<>>
    /\ patterns = <<>>
    /\ memories = <<>>
    /\ uuid = [identity |-> 0, element |-> 0, failure |-> 0, memory |-> 0]
    /\ calls = [p \in Procs |-> IdleFrame]
    /\ lastCall = [op |-> "none"]
    /\ result = Returned("none")
    /\ callLog = <<>>
    /\ now = 0
    /\ lastDecayRun = [at |-> 0, decayed |-> {}]
    /\ lastRun = Undefined

\* Cortex.create: the services with their default configuration
Init ==
    /\ InitStores
    /\ config = DefaultServiceConfig

\* IdentityService.create, run to completion
IdentityCreate(input) ==
    LET id == uuid.identity + 1
        base == uuid.element
        ref == NewRef(heap)
        identity == NewIdentity(input, id, ref, base)
        values == NewIdentityValues(input, base)
    IN /\ Quiet
       /\ uuid.identity < MaxIdentityCreates
       /\ lastCall' = [op |-> "identity.create", input |-> input]
       /\ callLog' = <<>>
       /\ IF ~ValidateCreateInput(input)
          THEN /\ result' = Threw("Invalid identity input")
               /\ UNCHANGED <<identities, versions, heap, uuid>>
          ELSE IF ~ValidateIdentity(identity, values)
          THEN /\ result' = Threw("Identity validation failed")
               /\ uuid' = [uuid EXCEPT !.identity = id,
                                       !.element = base + Len(input.invariants)
                                           + Len(input.styleConstraints) + Len(input.values)]
               /\ UNCHANGED <<identities, versions, heap>>
          ELSE /\ identities' = SaveIdentity(identities, identity)
               /\ versions' = SaveVersion(versions, InitialVersion(identity))
               /\ heap' = (ref :> values) @@ heap
               /\ uuid' = [uuid EXCEPT !.identity = id,
                                       !.element = base + Len(input.invariants)
                                           + Len(input.styleConstraints) + Len(input.values)]
               /\ result' = Returned(identity)
       /\ UNCHANGED <<patterns, memories, calls>>
       /\ UNCHANGED <<now, config, lastDecayRun, lastRun>>

\* IdentityService.update, run to completion
IdentityUpdate(id, input) ==
    LET loaded == LoadIdentity(identities, id)
        existing == Get(loaded)
        base == uuid.element
        ref == NewRef(heap)
        updated == UpdatedIdentity(existing, input, ref, base)
        heapAfter == IF IsDefined(input.values)
                     THEN (ref :> UpdatedIdentityValues(input, base)) @@ heap
                     ELSE heap
    IN /\ Quiet
       /\ IsDefined(loaded) => existing.version < MaxVersion
       /\ lastCall' = [op |-> "identity.update", id |-> id, input |-> input]
       /\ callLog' = <<>>
       /\ IF ~ValidateUpdateInput(input)
          THEN /\ result' = Threw("Invalid update input")
               /\ UNCHANGED <<identities, versions, heap, uuid>>
          ELSE IF ~IsDefined(loaded)
          THEN /\ result' = Threw("Identity not found")
               /\ UNCHANGED <<identities, versions, heap, uuid>>
          ELSE IF ~ValidateIdentity(updated, heapAfter[updated.values])
          THEN /\ result' = Threw("Updated identity validation failed")
               /\ uuid' = [uuid EXCEPT !.element = base + UpdateIdCount(input)]
               /\ UNCHANGED <<identities, versions, heap>>
          ELSE /\ identities' = SaveIdentity(identities, updated)
               /\ versions' = SaveVersion(versions, UpdateVersion(updated, input))
               /\ heap' = heapAfter
               /\ uuid' = [uuid EXCEPT !.element = base + UpdateIdCount(input)]
               /\ result' = Returned(updated)
       /\ UNCHANGED <<patterns, memories, calls>>
       /\ UNCHANGED <<now, config, lastDecayRun, lastRun>>

\* IdentityService.delete with InMemoryIdentityStorage.delete
IdentityDelete(id) ==
    LET identitiesAfter == DeleteIdentity(identities, id)
        versionsAfter == DeleteVersions(versions, id)
    IN /\ Quiet
       /\ lastCall' = [op |-> "identity.delete", id |-> id]
       /\ callLog' = <<>>
       /\ IF id \notin DOMAIN identities
          THEN /\ result' = Threw("Identity not found")
               /\ UNCHANGED <<identities, versions, heap>>
          ELSE /\ identities' = identitiesAfter
               /\ versions' = versionsAfter
               /\ heap' = [r \in DOMAIN heap \cap LiveRefs(identitiesAfter, versionsAfter)
                             |-> heap[r]]
               /\ result' = Returned("void")
       /\ UNCHANGED <<patterns, memories, uuid, calls>>
       /\ UNCHANGED <<now, config, lastDecayRun, lastRun>>

\* FailureMemoryService.record, run to completion
FailureRecord(input) ==
    LET outcome == FailureRecordOutcome(patterns, input, uuid.failure + 1)
        created == outcome.id = uuid.failure + 1
    IN /\ Quiet
       /\ lastCall' = [op |-> "failure.record", input |-> input]
       /\ callLog' = <<>>
       /\ IF ~ValidateRecordFailureInput(input)
          THEN /\ result' = Threw("Invalid failure input")
               /\ UNCHANGED <<patterns, uuid>>
          ELSE /\ created => uuid.failure < MaxPatternCreates
               /\ outcome.occurrenceCount <= MaxOccurrences
               /\ patterns' = MapSet(patterns, outcome)
               /\ uuid' = IF created THEN [uuid EXCEPT !.failure = @ + 1] ELSE uuid
               /\ result' = Returned(outcome)
       /\ UNCHANGED <<identities, versions, heap, memories, calls>>
       /\ UNCHANGED <<now, config, lastDecayRun, lastRun>>

\* FailureMemoryService.activate / deactivate
FailureSetActive(op, id, active) ==
    LET loaded == MapGet(patterns, id)
        updated == [Get(loaded) EXCEPT !.active = active]
    IN /\ Quiet
       /\ lastCall' = [op |-> op, id |-> id]
       /\ callLog' = <<>>
       /\ IF ~IsDefined(loaded)
          THEN /\ result' = Threw("Failure pattern not found")
               /\ UNCHANGED patterns
          ELSE /\ patterns' = MapSet(patterns, updated)
               /\ result' = Returned(updated)
       /\ UNCHANGED <<identities, versions, heap, memories, uuid, calls>>
       /\ UNCHANGED <<now, config, lastDecayRun, lastRun>>

FailureActivate(id) == FailureSetActive("failure.activate", id, TRUE)
FailureDeactivate(id) == FailureSetActive("failure.deactivate", id, FALSE)

\* FailureMemoryService.delete
FailureDelete(id) ==
    /\ Quiet
    /\ lastCall' = [op |-> "failure.delete", id |-> id]
    /\ callLog' = <<>>
    /\ IF ~IsDefined(MapGet(patterns, id))
       THEN /\ result' = Threw("Failure pattern not found")
            /\ UNCHANGED patterns
       ELSE /\ patterns' = MapDelete(patterns, id)
            /\ result' = Returned("void")
    /\ UNCHANGED <<identities, versions, heap, memories, uuid, calls>>
    /\ UNCHANGED <<now, config, lastDecayRun, lastRun>>

\* FailureMemoryService.checkBlocking called by a client
FailureCheckBlocking(text, context) ==
    /\ Quiet
    /\ lastCall' = [op |-> "failure.checkBlocking", text |-> text, context |-> context]
    /\ callLog' = <<>>
    /\ result' = Returned(CheckBlocking(patterns, text, context))
    /\ UNCHANGED <<identities, versions, heap, patterns, memories, uuid, calls>>
    /\ UNCHANGED <<now, config, lastDecayRun, lastRun>>

\* FailureMemoryService.getMatchingPatterns called by a client
FailureGetMatchingPatterns(text) ==
    /\ Quiet
    /\ lastCall' = [op |-> "failure.getMatchingPatterns", text |-> text]
    /\ callLog' = <<>>
    /\ result' = Returned(GetMatchingPatterns(patterns, text))
    /\ UNCHANGED <<identities, versions, heap, patterns, memories, uuid, calls>>
    /\ UNCHANGED <<now, config, lastDecayRun, lastRun>>

\* FailureMemoryService.retrieve called by a client
FailureRetrieve(query) ==
    /\ Quiet
    /\ lastCall' = [op |-> "failure.retrieve", query |-> query]
    /\ callLog' = <<>>
    /\ result' = Returned(FailureRetrieveResult(patterns, query))
    /\ UNCHANGED <<identities, versions, heap, patterns, memories, uuid, calls>>
    /\ UNCHANGED <<now, config, lastDecayRun, lastRun>>

\* DistilledMemoryService.record, run to completion
MemoryRecord(input) ==
    LET target == MostSimilarMemory(memories, input)
        loaded == MapGet(memories, Get(target))
        updated == Reinforced(Get(loaded))
        memory == NewMemory(input, uuid.memory + 1)
    IN /\ Quiet
       /\ lastCall' = [op |-> "memory.record", input |-> input]
       /\ callLog' = <<>>
       /\ IF ~ValidateCreateMemoryInput(input)
          THEN /\ result' = Threw("Invalid memory input")
               /\ UNCHANGED <<memories, uuid>>
          ELSE IF IsDefined(target)
          THEN /\ updated.reinforcementCount <= MaxReinforcements
               /\ memories' = MapSet(memories, updated)
               /\ result' = Returned(updated)
               /\ UNCHANGED uuid
          ELSE /\ uuid.memory < MaxMemoryCreates
               /\ memories' = MapSet(memories, memory)
               /\ uuid' = [uuid EXCEPT !.memory = @ + 1]
               /\ result' = Returned(memory)
       /\ UNCHANGED <<identities, versions, heap, patterns, calls>>
       /\ UNCHANGED <<now, config, lastDecayRun, lastRun>>

\* the clock moves on by half a decay interval
ClockStepMs == DecayIntervalMs \div 2
Tick ==
    /\ Quiet
    /\ now < MaxTicks * ClockStepMs
    /\ now' = now + ClockStepMs
    /\ UNCHANGED <<identities, versions, heap, patterns, memories, uuid, calls,
                   lastCall, result, callLog, config, lastDecayRun, lastRun>>

\* DistilledMemoryService.reinforce, run to completion
MemoryReinforce(id) ==
    LET loaded == MapGet(memories, id)
        memory == Get(loaded)
        updated == Reinforced(memory)
    IN /\ Quiet
       /\ lastCall' = [op |-> "memory.reinforce", id |-> id]
       /\ callLog' = <<>>
       /\ IF ~IsDefined(loaded)
          THEN /\ result' = Threw("Memory not found")
               /\ UNCHANGED memories
          ELSE /\ updated.reinforcementCount <= MaxReinforcements
               /\ memories' = MapSet(memories, updated)
               /\ result' = Returned(ReinforcementResult(memory, updated))
       /\ UNCHANGED <<identities, versions, heap, patterns, uuid, calls>>
       /\ UNCHANGED <<now, config, lastDecayRun, lastRun>>

\* DistilledMemoryService.applyDecay, run to completion
MemoryApplyDecay ==
    LET run == ApplyDecay(memories)
    IN /\ Quiet
       /\ lastCall' = [op |-> "memory.applyDecay"]
       /\ callLog' = <<>>
       /\ memories' = run.store
       /\ result' = Returned(Cardinality(run.decayed))
       /\ lastDecayRun' = [at |-> now, decayed |-> run.decayed]
       /\ UNCHANGED <<identities, versions, heap, patterns, uuid, calls>>
       /\ UNCHANGED <<now, config, lastRun>>

\* DistilledMemoryService.cleanup, run to completion
MemoryCleanup ==
    LET run == Cleanup(memories)
    IN /\ Quiet
       /\ lastCall' = [op |-> "memory.cleanup"]
       /\ callLog' = <<>>
       /\ memories' = run.store
       /\ result' = Returned(run.deletedIds)
       /\ UNCHANGED <<identities, versions, heap, patterns, uuid, calls>>
       /\ UNCHANGED <<now, config, lastDecayRun, lastRun>>

\* DistilledMemoryService.merge, run to completion: save(merged), then
\* delete(removeId)
MemoryMerge(keepId, removeId) ==
    LET keep == MapGet(memories, keepId)
        remove == MapGet(memories, removeId)
        merged == Merged(Get(keep), Get(remove))
    IN /\ Quiet
       /\ lastCall' = [op |-> "memory.merge", keepId |-> keepId, removeId |-> removeId]
       /\ callLog' = <<>>
       /\ IF ~IsDefined(keep) \/ ~IsDefined(remove)
          THEN /\ result' = Threw("Memory not found")
               /\ UNCHANGED memories
          ELSE /\ merged.reinforcementCount <= MaxReinforcements
               /\ memories' = MapDelete(MapSet(memories, merged), removeId)
               /\ result' = Returned([merged |-> merged,
                                      removed |-> Get(remove),
                                      similarityScore |->
                                          ComputeSimilarity(Get(keep).content,
                                                            Get(remove).content)])
       /\ UNCHANGED <<identities, versions, heap, patterns, uuid, calls>>
       /\ UNCHANGED <<now, config, lastDecayRun, lastRun>>

\* DistilledMemoryService.retrieve called by a client
MemoryRetrieve(query) ==
    /\ Quiet
    /\ lastCall' = [op |-> "memory.retrieve", query |-> query]
    /\ callLog' = <<>>
    /\ result' = Returned(Retrieve(memories, query))
    /\ UNCHANGED <<identities, versions, heap, patterns, memories, uuid, calls>>
    /\ UNCHANGED <<now, config, lastDecayRun, lastRun>>

\* CortexEngine.prepareContext, run to completion
PrepareContext(input) ==
    LET run == PrepareContextRun(identities, heap, patterns, memories, input)
    IN /\ Quiet
       /\ lastCall' = [op |-> "prepareContext", input |-> input]
       /\ result' = run.result
       /\ callLog' = run.log
       /\ heap' = run.heap
       /\ memories' = run.memories
       /\ UNCHANGED <<identities, versions, patterns, uuid, calls>>
       /\ UNCHANGED <<now, config, lastDecayRun, lastRun>>

-----------------------------------------------------------------------------
(* Spec: the pipeline over the failure memory, one call at a time.  The    *)
(* environment first creates one identity and records one lesson, then     *)
(* records, toggles and checks failure patterns and prepares contexts.      *)
(* Deletion of patterns is part of SpecBlocking.                            *)

PipelineIdentity == CreateInput("id", <<Val("v1", 1), Val("v2", 2)>>)
PipelineMemory == MemoryInput("lesson", TxtAB, Some(80))
Ready == uuid.identity > 0 /\ uuid.memory > 0

SetupIdentity == uuid.identity = 0 /\ IdentityCreate(PipelineIdentity)
SetupMemory == uuid.identity > 0 /\ uuid.memory = 0 /\ MemoryRecord(PipelineMemory)

Next ==
    \/ SetupIdentity
    \/ SetupMemory
    \/ Ready /\ \E input \in FailureInputs : FailureRecord(input)
    \/ Ready /\ \E id \in PatternIds : FailureActivate(id)
    \/ Ready /\ \E id \in PatternIds : FailureDeactivate(id)
    \/ \E text \in {TxtAB, TxtABCDE}, context \in QueryContexts :
          FailureCheckBlocking(text, context)
    \/ \E id \in {1, 2}, skip \in {Undefined, Some(TRUE)} :
          PrepareContext(PrepareInput(id, TxtAB, Undefined, skip))

Spec == Init /\ [][Next]_vars

-----------------------------------------------------------------------------
(* SpecIdentity: the identity service and the pipeline, one call at a      *)
(* time, with one hard failure pattern that blocks the query.  The         *)
(* environment keeps one identity at a time: it creates the next one only  *)
(* after deleting the last.                                                *)

CreateInputs ==
    {CreateInput("id", <<Val("v1", 1), Val("v2", 2)>>),
     CreateInput("id", <<Val("v1", 2), Val("v2", 1)>>),
     CreateInput("", <<Val("v1", 1)>>)}

UpdateInputs ==
    {UpdateInput("r1", Undefined, Some("conservative")),
     UpdateInput("r2", Some(<<Val("w1", 1), Val("w2", 3)>>), Undefined),
     UpdateInput("", Undefined, Undefined)}

NextIdentity ==
    \/ DOMAIN identities = {} /\ \E input \in CreateInputs : IdentityCreate(input)
    \/ \E id \in IdentityIds, input \in UpdateInputs : IdentityUpdate(id, input)
    \/ \E id \in IdentityIds : IdentityDelete(id)
    \/ uuid.failure = 0 /\ FailureRecord(FailureInput(TxtAB, "hard"))
    \/ \E id \in IdentityIds, skip \in {Undefined, Some(TRUE)} :
          PrepareContext(PrepareInput(id, TxtAB, Undefined, skip))

SpecIdentity == Init /\ [][NextIdentity]_vars

-----------------------------------------------------------------------------
(* Overlapping calls.  An async method runs from one await to the next     *)
(* without interruption; the storage call of an await expression runs      *)
(* before the method suspends, and another call may run before it resumes. *)

\* update(), lines 207-215: validate, then storage.load and suspend
UpdateCall(p, id, input) ==
    /\ calls[p].pc = "idle"
    /\ id \in DOMAIN identities => identities[id].version < MaxVersion
    /\ IF ~ValidateUpdateInput(input)
       THEN /\ result' = Threw("Invalid update input")
            /\ lastCall' = [op |-> "identity.update", id |-> id, input |-> input]
            /\ UNCHANGED calls
       ELSE /\ calls' = [calls EXCEPT ![p] =
                           [pc |-> "update.loaded", id |-> id, input |-> input,
                            existing |-> LoadIdentity(identities, id)]]
            /\ UNCHANGED <<result, lastCall>>
    /\ UNCHANGED <<identities, versions, heap, patterns, memories, uuid, callLog>>
    /\ UNCHANGED <<now, config, lastDecayRun, lastRun>>

\* update(), lines 216-256: resume after load, build and validate the
\* updated identity, then storage.save and suspend
UpdateAfterLoad(p) ==
    LET frame == calls[p]
        existing == Get(frame.existing)
        base == uuid.element
        ref == NewRef(heap)
        updated == UpdatedIdentity(existing, frame.input, ref, base)
        heapAfter == IF IsDefined(frame.input.values)
                     THEN (ref :> UpdatedIdentityValues(frame.input, base)) @@ heap
                     ELSE heap
    IN /\ frame.pc = "update.loaded"
       /\ IF ~IsDefined(frame.existing)
          THEN /\ result' = Threw("Identity not found")
               /\ lastCall' = [op |-> "identity.update", id |-> frame.id,
                               input |-> frame.input]
               /\ calls' = [calls EXCEPT ![p] = IdleFrame]
               /\ UNCHANGED <<identities, heap, uuid>>
          ELSE IF ~ValidateIdentity(updated, heapAfter[updated.values])
          THEN /\ result' = Threw("Updated identity validation failed")
               /\ lastCall' = [op |-> "identity.update", id |-> frame.id,
                               input |-> frame.input]
               /\ calls' = [calls EXCEPT ![p] = IdleFrame]
               /\ uuid' = [uuid EXCEPT !.element = base + UpdateIdCount(frame.input)]
               /\ UNCHANGED <<identities, heap>>
          ELSE /\ identities' = SaveIdentity(identities, updated)
               /\ heap' = heapAfter
               /\ uuid' = [uuid EXCEPT !.element = base + UpdateIdCount(frame.input)]
               /\ calls' = [calls EXCEPT ![p] =
                              [pc |-> "update.saved", id |-> frame.id,
                               input |-> frame.input, updated |-> updated]]
               /\ UNCHANGED <<result, lastCall>>
       /\ UNCHANGED <<versions, patterns, memories, callLog>>
       /\ UNCHANGED <<now, config, lastDecayRun, lastRun>>

\* update(), lines 258-266: resume after save, then storage.saveVersion
\* and suspend
UpdateAfterSave(p) ==
    LET frame == calls[p]
    IN /\ frame.pc = "update.saved"
       /\ versions' = SaveVersion(versions, UpdateVersion(frame.updated, frame.input))
       /\ calls' = [calls EXCEPT ![p] = [frame EXCEPT !.pc = "update.versioned"]]
       /\ UNCHANGED <<identities, heap, patterns, memories, uuid, lastCall, result, callLog>>
       /\ UNCHANGED <<now, config, lastDecayRun, lastRun>>

\* update(), line 268: resume after saveVersion and return
UpdateReturn(p) ==
    LET frame == calls[p]
    IN /\ frame.pc = "update.versioned"
       /\ result' = Returned(frame.updated)
       /\ lastCall' = [op |-> "identity.update", id |-> frame.id, input |-> frame.input]
       /\ calls' = [calls EXCEPT ![p] = IdleFrame]
       /\ UNCHANGED <<identities, versions, heap, patterns, memories, uuid, callLog>>
       /\ UNCHANGED <<now, config, lastDecayRun, lastRun>>

RaceUpdateInputs ==
    {UpdateInput("r1", Undefined, Some("conservative")),
     UpdateInput("r2", Some(<<Val("w1", 1), Val("w2", 3)>>), Undefined)}

NextUpdateRace ==
    \/ SetupIdentity
    \/ \E p \in Procs, input \in RaceUpdateInputs : UpdateCall(p, 1, input)
    \/ \E p \in Procs : UpdateAfterLoad(p)
    \/ \E p \in Procs : UpdateAfterSave(p)
    \/ \E p \in Procs : UpdateReturn(p)

SpecUpdateRace == Init /\ [][NextUpdateRace]_vars

\* record(), lines 292-299: validate, then storage.listAll and suspend
RecordCall(p, input) ==
    /\ calls[p].pc = "idle"
    /\ IF ~ValidateCreateMemoryInput(input)
       THEN /\ result' = Threw("Invalid memory input")
            /\ lastCall' = [op |-> "memory.record", input |-> input]
            /\ UNCHANGED calls
       ELSE /\ calls' = [calls EXCEPT ![p] =
                           [pc |-> "record.listed", input |-> input,
                            existingMemories |-> memories]]
            /\ UNCHANGED <<result, lastCall>>
    /\ UNCHANGED <<identities, versions, heap, patterns, memories, uuid, callLog>>
    /\ UNCHANGED <<now, config, lastDecayRun, lastRun>>

\* record(), lines 300-334, and reinforce(), line 348: resume after
\* listAll; either call reinforce, which runs storage.load and suspends, or
\* build the new memory, run storage.save and suspend
RecordAfterList(p) ==
    LET frame == calls[p]
        target == MostSimilarMemory(frame.existingMemories, frame.input)
        memory == NewMemory(frame.input, uuid.memory + 1)
    IN /\ frame.pc = "record.listed"
       /\ IF IsDefined(target)
          THEN /\ calls' = [calls EXCEPT ![p] =
                              [pc |-> "reinforce.loaded", input |-> frame.input,
                               memory |-> MapGet(memories, Get(target))]]
               /\ UNCHANGED <<memories, uuid>>
          ELSE /\ uuid.memory < MaxMemoryCreates
               /\ memories' = MapSet(memories, memory)
               /\ uuid' = [uuid EXCEPT !.memory = @ + 1]
               /\ calls' = [calls EXCEPT ![p] =
                              [pc |-> "record.saved", input |-> frame.input,
                               memory |-> memory]]
       /\ UNCHANGED <<identities, versions, heap, patterns, lastCall, result, callLog>>
       /\ UNCHANGED <<now, config, lastDecayRun, lastRun>>

\* reinforce(), lines 349-371: resume after load, then storage.save and
\* suspend
ReinforceAfterLoad(p) ==
    LET frame == calls[p]
        updated == Reinforced(Get(frame.memory))
    IN /\ frame.pc = "reinforce.loaded"
       /\ IF ~IsDefined(frame.memory)
          THEN /\ result' = Threw("Memory not found")
               /\ lastCall' = [op |-> "memory.record", input |-> frame.input]
               /\ calls' = [calls EXCEPT ![p] = IdleFrame]
               /\ UNCHANGED memories
          ELSE /\ updated.reinforcementCount <= MaxReinforcements
               /\ memories' = MapSet(memories, updated)
               /\ calls' = [calls EXCEPT ![p] =
                              [pc |-> "record.saved", input |-> frame.input,
                               memory |-> updated]]
               /\ UNCHANGED <<result, lastCall>>
       /\ UNCHANGED <<identities, versions, heap, patterns, uuid, callLog>>
       /\ UNCHANGED <<now, config, lastDecayRun, lastRun>>

\* record(), lines 314 and 335: resume after the save and return the memory
RecordReturn(p) ==
    LET frame == calls[p]
    IN /\ frame.pc = "record.saved"
       /\ result' = Returned(frame.memory)
       /\ lastCall' = [op |-> "memory.record", input |-> frame.input]
       /\ calls' = [calls EXCEPT ![p] = IdleFrame]
       /\ UNCHANGED <<identities, versions, heap, patterns, memories, uuid, callLog>>
       /\ UNCHANGED <<now, config, lastDecayRun, lastRun>>

RaceMemoryInputs ==
    {MemoryInput("lesson", TxtAB, Some(80)),
     MemoryInput("lesson", TxtPadAB, Undefined),
     MemoryInput("warning", TxtZ, Undefined)}

NextRecordRace ==
    \/ \E p \in Procs, input \in RaceMemoryInputs : RecordCall(p, input)
    \/ \E p \in Procs : RecordAfterList(p)
    \/ \E p \in Procs : ReinforceAfterLoad(p)
    \/ \E p \in Procs : RecordReturn(p)

SpecRecordRace == Init /\ [][NextRecordRace]_vars

-----------------------------------------------------------------------------
(* SpecMemory: record, reinforce and merge of the distilled memory         *)
(* service, one call at a time.  The service is built with the default     *)
(* configuration or with a lower maxConfidence.                            *)
(* SpecDecay: record (which reinforces a similar memory), applyDecay and   *)
(* cleanup under the default configuration, while the clock moves on.      *)

TaggedMemoryInput(type, content, confidence, tags) ==
    [type |-> type, content |-> content, confidence |-> confidence, tags |-> Some(tags)]

MemoryInputs ==
    {TaggedMemoryInput("lesson", TxtABC, Some(DeletionThreshold), <<2, 1>>),
     TaggedMemoryInput("warning", TxtABCDE, Some(90), <<3, 2>>),
     MemoryInput("preference", TxtABCD, Undefined),
     MemoryInput("lesson", TxtBlank, Undefined)}

ServiceConfigs == {DefaultServiceConfig, ServiceConfig(50, ReinforcementBoost)}

MemoryIds == 1..(MaxMemoryCreates + 1)

InitMemory ==
    /\ InitStores
    /\ config \in ServiceConfigs

NextMemory ==
    \/ \E input \in MemoryInputs : MemoryRecord(input)
    \/ \E id \in MemoryIds : MemoryReinforce(id)
    \/ \E keepId \in MemoryIds, removeId \in MemoryIds : MemoryMerge(keepId, removeId)

SpecMemory == InitMemory /\ [][NextMemory]_vars

DecayInputs ==
    {MemoryInput("lesson", TxtABC, Some(DeletionThreshold)),
     MemoryInput("preference", TxtZ, Some(DeletionThreshold - 1))}

NextDecay ==
    \/ Tick
    \/ \E input \in DecayInputs : MemoryRecord(input)
    \/ MemoryApplyDecay
    \/ MemoryCleanup

SpecDecay == Init /\ [][NextDecay]_vars

-----------------------------------------------------------------------------
(* SpecFailure: the failure memory service without deletion, one call at a *)
(* time, over one identity.                                                *)

FailureQuery(severity, active, semanticQuery) ==
    [severity |-> severity, tags |-> Undefined, active |-> active,
     minOccurrences |-> Undefined, limit |-> Undefined,
     semanticQuery |-> semanticQuery, similarityThreshold |-> Undefined]

FailureQueries ==
    {FailureQuery(Undefined, Undefined, Undefined),
     FailureQuery(Some("hard"), Undefined, Some(TxtABCDE)),
     FailureQuery(Undefined, Some(FALSE), Undefined)}

ServiceFailureInputs ==
    {FailureInput(TxtPadAB, "soft"), FailureInput(TxtABC, "hard"),
     FailureInput(TxtABCDE, "soft"), FailureInput(TxtABCD, "hard"),
     FailureInput(TxtBlank, "hard")}

NextFailure ==
    \/ SetupIdentity
    \/ \E input \in ServiceFailureInputs : FailureRecord(input)
    \/ \E id \in PatternIds : FailureActivate(id)
    \/ \E id \in PatternIds : FailureDeactivate(id)
    \/ FailureCheckBlocking(TxtABCDE, Undefined)
    \/ FailureGetMatchingPatterns(TxtABCDE)
    \/ \E query \in FailureQueries : FailureRetrieve(query)

SpecFailure == Init /\ [][NextFailure]_vars

-----------------------------------------------------------------------------
(* SpecBlocking: the failure memory with deletion, one call at a time,     *)
(* over one identity.                                                      *)

BlockingInputs ==
    {FailureInput(TxtPadAB, "soft"), FailureInput(TxtABC, "hard"),
     FailureInput(TxtABCDE, "hard")}

NextBlocking ==
    \/ SetupIdentity
    \/ \E input \in BlockingInputs : FailureRecord(input)
    \/ \E id \in PatternIds : FailureDeactivate(id)
    \/ \E id \in PatternIds : FailureDelete(id)
    \/ FailureCheckBlocking(TxtABCDE, Undefined)
    \/ PrepareContext(PrepareInput(1, TxtABC, Undefined, Undefined))

SpecBlocking == Init /\ [][NextBlocking]_vars

-----------------------------------------------------------------------------
(* Properties of the pipeline and of the failure memory.                   *)

Range(s) == {s[i] : i \in DOMAIN s}

ErrorShape(r) ==
    /\ DOMAIN r = {"blocked", "error", "success"}
    /\ r.success = FALSE
    /\ r.blocked = FALSE
BlockedShape(r) ==
    /\ DOMAIN r = {"blocked", "matchedPatterns", "reason", "success"}
    /\ r.success = FALSE
    /\ r.blocked = TRUE
SuccessShape(r) ==
    /\ DOMAIN r = {"context", "success"}
    /\ r.success = TRUE

\* the last call was a prepareContext run whose blocking check ran and
\* reported blocked = true
CheckReportedBlocked ==
    /\ lastCall.op = "prepareContext"
    /\ "failure.checkBlocking" \in Range(callLog)
    /\ CheckBlocking(patterns, lastCall.input.query, lastCall.input.context).blocked

\* C2: when the blocking check of a prepareContext run reports blocked and
\* skipCheck is not true, the run returns the blocked result, has made no
\* memoryService.retrieve call, and the result carries no memory content
\* (it has no context, only the matched failure patterns and a reason).
C2_BlockedRunSkipsRetrieval ==
    (CheckReportedBlocked /\ lastCall.input.skipCheck # Some(TRUE))
    => /\ BlockedShape(result)
       /\ "memory.retrieve" \notin Range(callLog)
       /\ callLog = <<"identity.load", "failure.checkBlocking">>
       /\ result.matchedPatterns
            = CheckBlocking(patterns, lastCall.input.query, lastCall.input.context).matchedPatterns

\* a blocked run over a store holding a memory that retrieval would return
C2_Witness ==
    /\ CheckReportedBlocked
    /\ lastCall.input.skipCheck # Some(TRUE)
    /\ BlockedShape(result)
    /\ \E i \in DOMAIN memories :
          /\ memories[i].confidence >= DefaultMinConfidence
          /\ FracGeq(ComputeSimilarity(lastCall.input.query, memories[i].content),
                     Hundredths(DefaultSimilarityThreshold))

\* C3: a completed prepareContext call returns exactly one of the three
\* shapes: the error shape iff the identity id is not stored, the blocked
\* shape iff the identity is stored, skipCheck is not true and the blocking
\* check reports blocked, the success shape in every other case.
C3_ThreeShapes ==
    lastCall.op = "prepareContext" =>
        LET input == lastCall.input
            stored == input.identityId \in DOMAIN identities
            reported == CheckBlocking(patterns, input.query, input.context).blocked
            skip == input.skipCheck = Some(TRUE)
        IN /\ ErrorShape(result) <=> ~stored
           /\ BlockedShape(result) <=> (stored /\ ~skip /\ reported)
           /\ SuccessShape(result) <=> (stored /\ (skip \/ ~reported))
           /\ Cardinality({k \in {"error", "blocked", "success"} :
                              \/ k = "error" /\ ErrorShape(result)
                              \/ k = "blocked" /\ BlockedShape(result)
                              \/ k = "success" /\ SuccessShape(result)}) = 1

\* a success although the blocking check reported blocked (skipCheck)
C3_Witness ==
    /\ lastCall.op = "prepareContext"
    /\ SuccessShape(result)
    /\ result.context.rawBlockingResult.blocked
    /\ lastCall.input.skipCheck = Some(TRUE)

\* the active patterns whose effective score reaches the blocking threshold
MatchingActive(text, context) ==
    {i \in DOMAIN patterns :
        /\ patterns[i].active
        /\ FracGeq(EffectiveScore(text, context, patterns[i]), Hundredths(BlockingThreshold))}

\* C4: checkBlocking returns blocked = true iff some active pattern whose
\* effective score is >= blockingThreshold has severity hard; when matches
\* exist and all are soft it returns blocked = false, severity soft and the
\* non-empty list of those matches; when no active pattern matches it
\* returns blocked = false, an empty list and severity null.
C4_CheckBlocking ==
    lastCall.op = "failure.checkBlocking" =>
        LET r == result.value
            matching == MatchingActive(lastCall.text, lastCall.context)
            hard == {i \in matching : patterns[i].severity = "hard"}
        IN /\ r.blocked <=> hard # {}
           /\ (matching # {} /\ hard = {}) =>
                 /\ r.blocked = FALSE
                 /\ r.severity = "soft"
                 /\ Len(r.matchedPatterns) = Cardinality(matching)
                 /\ Len(r.matchedPatterns) > 0
                 /\ Range(r.matchedPatterns) = {patterns[i] : i \in matching}
           /\ matching = {} =>
                 /\ r.blocked = FALSE
                 /\ r.matchedPatterns = <<>>
                 /\ r.severity = "null"

\* a check matched by a hard and a soft pattern, with an inactive one left out
C4_Witness ==
    /\ lastCall.op = "failure.checkBlocking"
    /\ result.value.blocked
    /\ \E i \in DOMAIN result.value.matchedPatterns :
          result.value.matchedPatterns[i].severity = "soft"

\* text P is blocked: checkBlocking(P) reports blocked and prepareContext
\* with query P returns the blocked result for every stored identity,
\* whatever the context, when skipCheck is not set
Blocks(idents, hp, pats, mems, P) ==
    /\ CheckBlocking(pats, P, Undefined).blocked
    /\ \A id \in DOMAIN idents, context \in QueryContexts, skip \in {Undefined, Some(FALSE)} :
          BlockedShape(PrepareContextRun(idents, hp, pats, mems,
                                         PrepareInput(id, P, context, skip)).result)

RecordableTexts == {input.pattern : input \in BlockingInputs}

\* C5: under the default thresholds, once failure.record of a hard input
\* with pattern text P has completed, P is blocked (checkBlocking(P) and
\* prepareContext with query P for an existing identity), and a text that
\* is blocked stays blocked through every later call that is not a
\* deactivate or a delete.
C5_HardRecordBlocks ==
    /\ [](( /\ lastCall.op = "failure.record"
            /\ ~result.threw
            /\ lastCall.input.severity = "hard")
          => Blocks(identities, heap, patterns, memories, lastCall.input.pattern))
    /\ [][lastCall'.op \notin {"failure.deactivate", "failure.delete"}
          => \A P \in RecordableTexts :
                Blocks(identities, heap, patterns, memories, P)
                => Blocks(identities', heap', patterns', memories', P)]_vars

\* a hard record that hit a pattern first recorded as soft, with an
\* identity stored
C5_Witness ==
    /\ lastCall.op = "failure.record"
    /\ ~result.threw
    /\ lastCall.input.severity = "hard"
    /\ result.value.occurrenceCount > 1
    /\ result.value.reason = ReasonOf("soft")
    /\ result.value.pattern # Trim(lastCall.input.pattern)
    /\ DOMAIN identities # {}

-----------------------------------------------------------------------------
(* Properties of the identity service.                                     *)

\* what load(id) shows of an identity: the fields with the values array read
IdentityView(hp, identity) ==
    [version |-> identity.version,
     values |-> hp[identity.values],
     invariants |-> identity.invariants,
     styleConstraints |-> identity.styleConstraints,
     riskPosture |-> identity.riskPosture]

\* C1: whatever the outcome of a prepareContext call, the identity load(id)
\* returns after the call equals the one it returned before the call in
\* version, values (content and order), invariants, style constraints and
\* risk posture.
C1_PrepareContextLeavesIdentity ==
    [][lastCall'.op = "prepareContext"
       => \A id \in DOMAIN identities :
             /\ id \in DOMAIN identities'
             /\ IdentityView(heap', identities'[id]) = IdentityView(heap, identities[id])]_vars

\* C6: for a valid create input, create returns an identity with version 1,
\* and right after it the version history of the identity has exactly one
\* entry, with version 1, changeReason "initial" and a snapshot equal to the
\* created identity.
C6_CreateStartsHistory ==
    (lastCall.op = "identity.create" /\ ~result.threw) =>
        LET created == result.value
            history == GetVersions(versions, created.id)
        IN /\ ValidateCreateInput(lastCall.input)
           /\ created.version = 1
           /\ Len(history) = 1
           /\ history[1].version = 1
           /\ history[1].changeReason = "initial"
           /\ history[1].identityId = created.id
           /\ history[1].snapshot = created
           /\ IdentityView(heap, history[1].snapshot) = IdentityView(heap, created)
           /\ LoadIdentity(identities, created.id) = Some(created)
           /\ [i \in DOMAIN heap[created.values] |->
                 [name |-> heap[created.values][i].name,
                  priority |-> heap[created.values][i].priority]]
              = [i \in DOMAIN lastCall.input.values |->
                 [name |-> lastCall.input.values[i].name,
                  priority |-> lastCall.input.values[i].priority]]

\* a create that returned an identity with two values
C6_Witness ==
    /\ lastCall.op = "identity.create"
    /\ ~result.threw
    /\ Len(heap[result.value.values]) = 2
    /\ Len(GetVersions(versions, result.value.id)) = 1

\* C7: after k successful updates of an identity, one after the other, the
\* live version is k + 1, the version history has k + 1 entries with the
\* version numbers 1..k+1 in order, and each entry carries the change reason
\* of the call that produced it; every update raises the version by
\* exactly 1 and appends one entry.
C7_UpdatesCountVersions ==
    /\ [](\A id \in DOMAIN identities :
            LET history == GetVersions(versions, id)
            IN /\ identities[id].version = Len(history)
               /\ \A i \in DOMAIN history : history[i].version = i
               /\ history[1].changeReason = "initial")
    /\ []((lastCall.op = "identity.update" /\ ~result.threw) =>
            LET history == GetVersions(versions, lastCall.id)
            IN /\ Last(history).changeReason = lastCall.input.changeReason
               /\ Last(history).version = result.value.version
               /\ identities[lastCall.id].version = result.value.version)
    /\ [][(lastCall'.op = "identity.update" /\ ~result'.threw) =>
            /\ lastCall'.id \in DOMAIN identities
            /\ identities'[lastCall'.id].version = identities[lastCall'.id].version + 1
            /\ Len(versions'[lastCall'.id]) = Len(versions[lastCall'.id]) + 1
            /\ \A i \in DOMAIN versions[lastCall'.id] :
                  /\ versions'[lastCall'.id][i].changeReason
                       = versions[lastCall'.id][i].changeReason
                  /\ versions'[lastCall'.id][i].version = versions[lastCall'.id][i].version]_vars

\* two updates with different change reasons after the create
C7_Witness ==
    \E id \in DOMAIN identities :
        /\ identities[id].version = 3
        /\ Len(versions[id]) = 3
        /\ versions[id][2].changeReason = "r2"
        /\ versions[id][3].changeReason = "r1"
        /\ lastCall.op = "identity.update"

\* what getVersion(id, n) shows of a snapshot
SnapshotView(vers, hp, id, n) ==
    LET found == GetVersion(vers, id, n)
    IN IF IsDefined(found) THEN Some(IdentityView(hp, Get(found).snapshot)) ELSE Undefined

\* C8: once the snapshot of version n of an identity is saved, what
\* getVersion(id, n) returns does not change under later update and
\* prepareContext calls, as long as the identity is not deleted: values,
\* their order, invariants, style constraints and risk posture stay as saved.
C8_SnapshotsNeverChange ==
    [][lastCall'.op \in {"identity.update", "prepareContext"}
       => \A id \in DOMAIN versions : \A n \in 1..Len(versions[id]) :
             IsDefined(GetVersion(versions, id, n))
             => SnapshotView(versions', heap', id, n) = SnapshotView(versions, heap, id, n)]_vars

\* C9: two update calls on one identity that interleave at their awaits
\* both take effect: once both have returned, the live version is the
\* number of create and update calls that succeeded (the starting version
\* + 2), and the history holds exactly one snapshot per version number.
C9_InterleavedUpdatesBothCount ==
    Quiet => \A id \in DOMAIN identities :
                LET history == GetVersions(versions, id)
                IN /\ identities[id].version = Len(history)
                   /\ \A i, j \in DOMAIN history :
                         i # j => history[i].version # history[j].version

\* C10: two record calls with the same content that interleave at their
\* awaits on a store with no similar memory leave exactly one memory with
\* that content: one call created it, the other reinforced it.
C10_RecordIsFindOrCreate ==
    Quiet => \A i, j \in DOMAIN memories :
                i # j => ToLowerCase(Trim(memories[i].content))
                           # ToLowerCase(Trim(memories[j].content))

-----------------------------------------------------------------------------
(* Properties of the failure memory service.                               *)

\* the input text is a duplicate of the stored pattern
IsDuplicateOf(text, pattern) ==
    FracGeq(ComputeSimilarity(text, pattern.pattern), Hundredths(DuplicateThreshold))

\* C11: the severity of a stored pattern is never downgraded: a hard
\* pattern stays hard under record (hard or soft input), activate,
\* deactivate and retrieve; a soft pattern becomes hard only by a record
\* call with severity hard that matches it as a duplicate.
C11_SeverityNeverDowngraded ==
    [][\A i \in DOMAIN patterns :
         LET before == patterns[i]
             after == MapGet(patterns', before.id)
         IN /\ IsDefined(after)
            /\ before.severity = "hard" => Get(after).severity = "hard"
            /\ (before.severity = "soft" /\ Get(after).severity = "hard") =>
                  /\ lastCall'.op = "failure.record"
                  /\ lastCall'.input.severity = "hard"
                  /\ ~result'.threw
                  /\ result'.value.id = before.id
                  /\ IsDuplicateOf(lastCall'.input.pattern, before)]_vars

\* a soft record that hit a hard pattern and left it hard
C11_Witness ==
    /\ lastCall.op = "failure.record"
    /\ ~result.threw
    /\ lastCall.input.severity = "soft"
    /\ result.value.occurrenceCount > 1
    /\ result.value.severity = "hard"

\* the stored duplicate record() picks: the most similar, the first of
\* equally similar ones
MostSimilarDuplicate(text) ==
    LET dups == {i \in DOMAIN patterns : IsDuplicateOf(text, patterns[i])}
        score(i) == ComputeSimilarity(text, patterns[i].pattern)
    IN {i \in dups : \A j \in dups :
            \/ FracGt(score(i), score(j))
            \/ (FracGeq(score(i), score(j)) /\ i <= j)}

\* C18: record with a valid input: if some stored pattern, active or not,
\* is a duplicate of the input pattern, the single most similar one gets
\* occurrenceCount + 1, active = true, severity hard when the input is hard
\* (else its severity is kept), keeps id, pattern, context, reason and tags,
\* and no pattern is added; otherwise exactly one new pattern is added with
\* occurrenceCount 1, active true and the input severity.
C18_RecordFindsOrCreates ==
    [][lastCall'.op = "failure.record" =>
         LET input == lastCall'.input
             target == MostSimilarDuplicate(input.pattern)
         IN /\ ValidateRecordFailureInput(input) <=> ~result'.threw
            /\ result'.threw => patterns' = patterns
            /\ (~result'.threw /\ target # {}) =>
                  \E i \in target :
                     /\ Cardinality(target) = 1
                     /\ patterns' = [patterns EXCEPT ![i] =
                           [patterns[i] EXCEPT
                              !.occurrenceCount = patterns[i].occurrenceCount + 1,
                              !.active = TRUE,
                              !.severity = IF input.severity = "hard"
                                           THEN "hard" ELSE patterns[i].severity]]
                     /\ result'.value = patterns'[i]
            /\ (~result'.threw /\ target = {}) =>
                  /\ Len(patterns') = Len(patterns) + 1
                  /\ SubSeq(patterns', 1, Len(patterns)) = patterns
                  /\ Last(patterns').occurrenceCount = 1
                  /\ Last(patterns').active = TRUE
                  /\ Last(patterns').severity = input.severity
                  /\ \A i \in DOMAIN patterns : patterns[i].id # Last(patterns').id
                  /\ result'.value = Last(patterns')]_vars

\* a record that hit the more similar of two duplicates, stored second and
\* inactive before the call
C18_Witness ==
    /\ lastCall.op = "failure.record"
    /\ ~result.threw
    /\ result.value.occurrenceCount > 1
    /\ Len(patterns) = 2
    /\ result.value.id = patterns[2].id
    /\ IsDuplicateOf(lastCall.input.pattern, patterns[1])
    /\ IsDuplicateOf(lastCall.input.pattern, patterns[2])

\* the store without its inactive patterns
ActiveOnly(pats) == SelectSeq(pats, LAMBDA p : p.active)

\* C19: deactivate(id) leaves the pattern stored with occurrenceCount,
\* severity, pattern, context and reason unchanged; an inactive pattern is
\* never returned by checkBlocking or getMatchingPatterns and cannot cause
\* a blocked result; it stays inactive until activate(id) or a duplicate
\* record reactivates it; activate and deactivate on an unknown id fail and
\* change nothing.
C19_DeactivatedIsExcluded ==
    /\ [](\A text \in {TxtAB, TxtABC, TxtABCD, TxtABCDE}, context \in QueryContexts :
            LET check == CheckBlocking(patterns, text, context)
            IN /\ \A k \in DOMAIN check.matchedPatterns : check.matchedPatterns[k].active
               /\ \A k \in DOMAIN GetMatchingPatterns(patterns, text) :
                     GetMatchingPatterns(patterns, text)[k].active
               /\ check = CheckBlocking(ActiveOnly(patterns), text, context)
               /\ \A id \in DOMAIN identities :
                     PrepareContextRun(identities, heap, patterns, memories,
                                       PrepareInput(id, text, context, Undefined)).result.success
                     = PrepareContextRun(identities, heap, ActiveOnly(patterns), memories,
                                         PrepareInput(id, text, context, Undefined)).result.success)
    /\ [][/\ lastCall'.op \in {"failure.activate", "failure.deactivate"} =>
               IF IsDefined(MapGet(patterns, lastCall'.id))
               THEN /\ ~result'.threw
                    /\ patterns' = [i \in DOMAIN patterns |->
                          IF patterns[i].id = lastCall'.id
                          THEN [patterns[i] EXCEPT
                                  !.active = (lastCall'.op = "failure.activate")]
                          ELSE patterns[i]]
               ELSE /\ result'.threw
                    /\ patterns' = patterns
          /\ \A i \in DOMAIN patterns :
               (~patterns[i].active /\ i \in DOMAIN patterns' /\ patterns'[i].active) =>
                  \/ lastCall'.op = "failure.activate" /\ lastCall'.id = patterns[i].id
                  \/ /\ lastCall'.op = "failure.record"
                     /\ ~result'.threw
                     /\ result'.value.id = patterns[i].id
                     /\ IsDuplicateOf(lastCall'.input.pattern, patterns[i])]_vars

\* a check that is not blocked although a deactivated hard pattern matches
\* the text
C19_Witness ==
    /\ lastCall.op = "failure.checkBlocking"
    /\ ~result.value.blocked
    /\ \E i \in DOMAIN patterns :
          /\ ~patterns[i].active
          /\ patterns[i].severity = "hard"
          /\ patterns[i].occurrenceCount > 1
          /\ FracGeq(EffectiveScore(lastCall.text, lastCall.context, patterns[i]),
                     Hundredths(BlockingThreshold))

-----------------------------------------------------------------------------
(* Properties of the distilled memory service.                             *)

\* C12: for every stored memory and every configured reinforcementBoost and
\* maxConfidence, reinforce(id) stores a record with decayFactor 1.0,
\* confidence = min(maxConfidence, old confidence + boost), which is not
\* lower than the old confidence, and reinforcementCount raised by exactly
\* 1; the returned previousConfidence and previousReinforcementCount are
\* the values before the call.
C12_ReinforceNeverLowers ==
    [][(lastCall'.op = "memory.reinforce" /\ ~result'.threw) =>
         LET old == Get(MapGet(memories, lastCall'.id))
             new == Get(MapGet(memories', lastCall'.id))
         IN /\ new.decayFactor = 100
            /\ new.confidence = Min(config.maxConfidence,
                                    old.confidence + config.reinforcementBoost)
            /\ new.confidence >= old.confidence
            /\ new.reinforcementCount = old.reinforcementCount + 1
            /\ result'.value.memory = new
            /\ result'.value.newConfidence = new.confidence
            /\ result'.value.previousConfidence = old.confidence
            /\ result'.value.previousReinforcementCount = old.reinforcementCount]_vars

\* a step that is a call of the given memory operation (the clock stands
\* still during a call)
MemoryCallStep(op) == lastCall'.op = op /\ now' = now

\* C13: if applyDecay runs at t1 and again at t2 with 0 <= t2 - t1 <
\* decayIntervalMs, the decayFactor of a memory changes in at most one of
\* the two runs: a memory the first run decayed keeps its decayFactor and
\* lastDecayAt in the second.
C13_DecayOncePerInterval ==
    [][(/\ MemoryCallStep("memory.applyDecay")
        /\ now - lastDecayRun.at >= 0
        /\ now - lastDecayRun.at < config.decayConfig.decayIntervalMs) =>
         \A i \in DOMAIN memories :
            memories[i].id \in lastDecayRun.decayed =>
               LET after == MapGet(memories', memories[i].id)
               IN /\ IsDefined(after)
                  /\ Get(after).decayFactor = memories[i].decayFactor
                  /\ Get(after).lastDecayAt = memories[i].lastDecayAt]_vars

\* a second run, half an interval after a run that decayed a memory, that
\* left it alone
C13_Witness ==
    /\ lastCall.op = "memory.applyDecay"
    /\ lastDecayRun.at = now
    /\ \E i \in DOMAIN memories :
          /\ memories[i].decayFactor < 100
          /\ memories[i].lastDecayAt < lastDecayRun.at
          /\ lastDecayRun.at - memories[i].lastDecayAt
               < config.decayConfig.decayIntervalMs
          /\ memories[i].id \notin lastDecayRun.decayed

C16_MergeKeepsUnionOfTags ==
    [][(/\ lastCall'.op = "memory.merge"
        /\ IsDefined(MapGet(memories, lastCall'.keepId))
        /\ IsDefined(MapGet(memories, lastCall'.removeId))) =>
         LET keep == Get(MapGet(memories, lastCall'.keepId))
             remove == Get(MapGet(memories, lastCall'.removeId))
             kept == MapGet(memories', lastCall'.keepId)
         IN /\ ~IsDefined(MapGet(memories', lastCall'.removeId))
            /\ IsDefined(kept)
            /\ Range(Get(kept).tags) = Range(keep.tags) \cup Range(remove.tags)
            /\ \A i, j \in DOMAIN Get(kept).tags :
                  i < j => Get(kept).tags[i] < Get(kept).tags[j]]_vars

\* the similarity of the input of a record call to a stored memory reaches
\* the duplicate threshold
IsDuplicateMemory(input, memory) ==
    FracGeq(ComputeSimilarity(input.content, memory.content),
            Hundredths(config.duplicateThreshold))

\* C17: memory.record with a valid input: if a stored memory of any type is
\* similar enough, the highest-scoring one is reinforced and returned and
\* the number of stored memories is unchanged; otherwise exactly one memory
\* is added, with the input confidence or 0.5, decayFactor 1.0 and
\* reinforcementCount 0.
C17_RecordReinforcesOrCreates ==
    [][(lastCall'.op = "memory.record"
        /\ ValidateCreateMemoryInput(lastCall'.input)) =>
         LET input == lastCall'.input
             dups == {i \in DOMAIN memories : IsDuplicateMemory(input, memories[i])}
         IN /\ ~result'.threw
            /\ IF dups # {}
               THEN /\ Len(memories') = Len(memories)
                    /\ \E i \in dups :
                         /\ \A j \in dups :
                               FracGeq(ComputeSimilarity(input.content, memories[i].content),
                                       ComputeSimilarity(input.content, memories[j].content))
                         /\ result'.value.id = memories[i].id
                         /\ memories'[i] = result'.value
                         /\ memories'[i].reinforcementCount
                              = memories[i].reinforcementCount + 1
                         /\ memories'[i].decayFactor = 100
                         /\ memories'[i].confidence
                              = Min(config.maxConfidence,
                                    memories[i].confidence + config.reinforcementBoost)
                         /\ memories'[i].content = memories[i].content
                         /\ memories'[i].type = memories[i].type
                         /\ \A j \in DOMAIN memories : j # i => memories'[j] = memories[j]
               ELSE /\ Len(memories') = Len(memories) + 1
                    /\ \A j \in DOMAIN memories : memories'[j] = memories[j]
                    /\ memories'[Len(memories')] = result'.value
                    /\ \A j \in DOMAIN memories : memories[j].id # result'.value.id
                    /\ result'.value.confidence = OrElse(input.confidence, 50)
                    /\ result'.value.decayFactor = 100
                    /\ result'.value.reinforcementCount = 0
                    /\ result'.value.type = input.type]_vars

\* the input "a b c d" is similar enough to both stored memories; the one
\* stored second scores higher and is the one reinforced
C17_Witness ==
    /\ lastCall.op = "memory.record"
    /\ lastCall.input.content = TxtABCD
    /\ ~result.threw
    /\ Len(memories) = 2
    /\ memories[1].content = Trim(TxtABC)
    /\ memories[1].reinforcementCount = 0
    /\ memories[2].content = Trim(TxtABCDE)
    /\ memories[2].reinforcementCount = 1
    /\ result.value = memories[2]

-----------------------------------------------------------------------------
(* Frame of the pipeline over the two memory stores.                       *)

\* C20: prepareContext never writes to the memory store or the failure
\* store: whatever the input and the outcome, the stored memories and the
\* stored failure patterns are the same after the call as before, and the
\* only service calls it makes are identity.load, failure.checkBlocking and
\* memory.retrieve, never a reinforcement, a decay or a cleanup.
C20_PrepareContextLeavesStores ==
    [][lastCall'.op = "prepareContext" =>
         /\ memories' = memories
         /\ patterns' = patterns
         /\ lastDecayRun' = lastDecayRun
         /\ \A k \in DOMAIN callLog' :
               callLog'[k] \in {"identity.load", "failure.checkBlocking",
                                "memory.retrieve"}]_vars

\* a successful run that matched a stored soft pattern and retrieved a
\* stored memory
C20_Witness ==
    /\ lastCall.op = "prepareContext"
    /\ SuccessShape(result)
    /\ Len(result.context.rawBlockingResult.matchedPatterns) > 0
    /\ Len(result.context.rawMemories) > 0
    /\ \E i \in DOMAIN memories : memories[i] = result.context.rawMemories[1]

-----------------------------------------------------------------------------
(* Properties of the outcome of the pipeline.                              *)

\* C22: in every blocked result of prepareContext, reason is the reason of
\* the first pattern of severity hard in the returned matchedPatterns, and
\* never the reason of a soft pattern.
C22_ReasonIsFirstHardPattern ==
    (lastCall.op = "prepareContext" /\ BlockedShape(result)) =>
        LET hard == SelectSeq(result.matchedPatterns, LAMBDA p : p.severity = "hard")
            soft == SelectSeq(result.matchedPatterns, LAMBDA p : p.severity = "soft")
        IN /\ Len(hard) > 0
           /\ result.reason = hard[1].reason
           /\ \A i \in DOMAIN soft : result.reason # soft[i].reason

\* C23: when failureOptions.skipCheck is true, prepareContext does not
\* invoke checkBlocking, never returns the blocked shape, and the failure
\* view of its success result has blocked = false with empty hardBlocks and
\* softBlocks.
C23_SkipCheckSkipsFailureChecking ==
    (lastCall.op = "prepareContext" /\ lastCall.input.skipCheck = Some(TRUE)) =>
        /\ "failure.checkBlocking" \notin Range(callLog)
        /\ ~BlockedShape(result)
        /\ SuccessShape(result) =>
              /\ result.context.failureContext.blocked = FALSE
              /\ result.context.failureContext.hardBlocks = <<>>
              /\ result.context.failureContext.softBlocks = <<>>

\* no element has a larger occurrenceCount than an element before it
ByOccurrenceDescending(ps) ==
    \A i, j \in DOMAIN ps : i < j => ps[i].occurrenceCount >= ps[j].occurrenceCount

\* C28: the matchedPatterns list returned by checkBlocking, and so the one
\* in every blocked result of prepareContext and in rawBlockingResult, is
\* ordered by occurrenceCount descending.
C28_MatchedPatternsByOccurrence ==
    /\ (lastCall.op = "failure.checkBlocking" /\ ~result.threw) =>
          ByOccurrenceDescending(result.value.matchedPatterns)
    /\ (lastCall.op = "prepareContext" /\ BlockedShape(result)) =>
          ByOccurrenceDescending(result.matchedPatterns)
    /\ (lastCall.op = "prepareContext" /\ SuccessShape(result)) =>
          ByOccurrenceDescending(result.context.rawBlockingResult.matchedPatterns)

\* a check that matched two patterns and returned the one stored second,
\* seen more often, first
C28_Witness ==
    /\ lastCall.op = "failure.checkBlocking"
    /\ ~result.threw
    /\ Len(result.value.matchedPatterns) = 2
    /\ result.value.matchedPatterns[1].occurrenceCount
         > result.value.matchedPatterns[2].occurrenceCount
    /\ Len(patterns) = 2
    /\ patterns[1] = result.value.matchedPatterns[2]
    /\ patterns[2] = result.value.matchedPatterns[1]

-----------------------------------------------------------------------------
(* SpecScore: blocking checks with and without a context, over patterns    *)
(* recorded with the context "x".                                          *)

ScoreInputs ==
    {FailureInput(TxtPadAB, "hard"), FailureInput(TxtABCDE, "soft"),
     FailureInput(TxtABCDE, "hard")}

ScoreContexts == {Undefined, Some(CtxX), Some(TxtZ)}

NextScore ==
    \/ \E input \in ScoreInputs : FailureRecord(input)
    \/ \E id \in PatternIds : FailureDeactivate(id)
    \/ \E text \in {TxtAB, TxtABCDE}, context \in ScoreContexts :
          FailureCheckBlocking(text, context)

SpecScore == Init /\ [][NextScore]_vars

PatternIdsOf(ps) == {ps[i].id : i \in DOMAIN ps}

\* C27: in checkBlocking the effective score of an active pattern is
\* patternScore without a context and max(patternScore, (patternScore +
\* contextScore)/2) with one; so for every text the patterns matched with a
\* context include those matched without, and a context can turn a
\* non-blocked check into a blocked one but never the reverse.
C27_ContextOnlyAddsMatches ==
    (lastCall.op = "failure.checkBlocking" /\ ~result.threw) =>
        LET text == lastCall.text
            context == lastCall.context
            threshold == Hundredths(BlockingThreshold)
            reaches(p) ==
                LET patternScore == ComputeSimilarity(text, p.pattern)
                IN \/ FracGeq(patternScore, threshold)
                   \/ /\ IsDefined(context)
                      /\ FracGeq(FracAvg(patternScore,
                                         ComputeSimilarity(Get(context), p.context)),
                                 threshold)
            without == CheckBlocking(patterns, text, Undefined)
        IN /\ PatternIdsOf(result.value.matchedPatterns)
                = {patterns[i].id : i \in {k \in DOMAIN patterns :
                                             patterns[k].active /\ reaches(patterns[k])}}
           /\ PatternIdsOf(without.matchedPatterns)
                \subseteq PatternIdsOf(result.value.matchedPatterns)
           /\ without.blocked => result.value.blocked

\* a check that is blocked with its context and would not be without it,
\* while another pattern matches either way
C27_Witness ==
    /\ lastCall.op = "failure.checkBlocking"
    /\ IsDefined(lastCall.context)
    /\ result.value.blocked
    /\ ~CheckBlocking(patterns, lastCall.text, Undefined).blocked
    /\ Len(CheckBlocking(patterns, lastCall.text, Undefined).matchedPatterns) = 1
    /\ Len(result.value.matchedPatterns) = 2

-----------------------------------------------------------------------------
(* SpecRegistry: the identity service alone, one call at a time.  The      *)
(* environment keeps at most two identities stored together, updates only  *)
(* the one created last and deletes only the one created first; the update *)
(* inputs supply the content the identities were created with.             *)

RegistryCreateInput == CreateInput("id", <<Val("v1", 1), Val("v2", 2)>>)

RegistryUpdateInputs ==
    {UpdateInput("r2", Some(RegistryCreateInput.values), Undefined),
     [UpdateInput("r3", Undefined, Undefined)
        EXCEPT !.invariants = Some(RegistryCreateInput.invariants),
               !.styleConstraints = Some(<<Style("tone"), Style("length")>>)],
     UpdateInput(" ", Some(<<Val("w1", 1)>>), Undefined),
     UpdateInput("", Undefined, Undefined)}

NextRegistry ==
    \/ Cardinality(DOMAIN identities) < 2 /\ IdentityCreate(RegistryCreateInput)
    \/ \E id \in IdentityIds, input \in RegistryUpdateInputs :
          /\ id \in DOMAIN identities => id = uuid.identity
          /\ IdentityUpdate(id, input)
    \/ \E id \in IdentityIds :
          /\ id \in DOMAIN identities => \A other \in DOMAIN identities : id <= other
          /\ IdentityDelete(id)

SpecRegistry == Init /\ [][NextRegistry]_vars

\* C24: identity.update fails without changing any stored state when
\* changeReason is empty or blank, when the id is unknown, or when the
\* resulting record does not validate: after the failed call the live
\* identity, its version and its version history are as before.
C24_FailedUpdateChangesNothing ==
    [][lastCall'.op = "identity.update" =>
         /\ (\/ IsBlankString(lastCall'.input.changeReason)
             \/ lastCall'.id \notin DOMAIN identities) => result'.threw
         /\ result'.threw =>
              /\ identities' = identities
              /\ versions' = versions
              /\ heap' = heap]_vars

\* an update with a blank changeReason that failed on an identity that was
\* updated before
C24_Witness ==
    /\ lastCall.op = "identity.update"
    /\ result.threw
    /\ lastCall.input.changeReason = " "
    /\ lastCall.id \in DOMAIN identities
    /\ identities[lastCall.id].version = 2
    /\ Len(versions[lastCall.id]) = 2

\* C25: identity.delete(id) on a stored identity removes the live record
\* and every version snapshot: afterwards load(id) is absent,
\* getVersionHistory(id) is empty and getVersion(id, n) is absent for every
\* n, while other identities are untouched; delete on an unknown id fails
\* and changes nothing.
C25_DeleteRemovesAllVersions ==
    [][lastCall'.op = "identity.delete" =>
         LET id == lastCall'.id
         IN IF id \in DOMAIN identities
            THEN /\ ~result'.threw
                 /\ ~IsDefined(LoadIdentity(identities', id))
                 /\ GetVersions(versions', id) = <<>>
                 /\ \A n \in 1..(MaxVersion + 1) : ~IsDefined(GetVersion(versions', id, n))
                 /\ \A other \in DOMAIN identities \ {id} :
                       /\ LoadIdentity(identities', other) = LoadIdentity(identities, other)
                       /\ IdentityView(heap', identities'[other])
                            = IdentityView(heap, identities[other])
                       /\ GetVersions(versions', other) = GetVersions(versions, other)
                       /\ \A n \in 1..Len(versions[other]) :
                             SnapshotView(versions', heap', other, n)
                               = SnapshotView(versions, heap, other, n)
            ELSE /\ result'.threw
                 /\ identities' = identities
                 /\ versions' = versions
                 /\ heap' = heap]_vars

\* a delete of an identity with two versions that left another identity
\* with two versions stored
C25_Witness ==
    /\ lastCall.op = "identity.delete"
    /\ ~result.threw
    /\ lastCall.id = 1
    /\ DOMAIN identities = {2}
    /\ DOMAIN versions = {2}
    /\ Len(versions[2]) = 2
    /\ uuid.element > 8

\* the identifiers of the nested elements of an identity object
ElementIdsOf(hp, identity) ==
    {hp[identity.values][i].id : i \in DOMAIN hp[identity.values]}
    \cup {identity.invariants[i].id : i \in DOMAIN identity.invariants}
    \cup {identity.styleConstraints[i].id : i \in DOMAIN identity.styleConstraints}

\* the identifiers that occur in a stored identity or version snapshot
StoredElementIds ==
    UNION {ElementIdsOf(heap, identities[i]) : i \in DOMAIN identities}
    \cup UNION {UNION {ElementIdsOf(heap, versions[i][k].snapshot) : k \in DOMAIN versions[i]}
                  : i \in DOMAIN versions}

\* the elements of a nested array without their identifiers
Content(xs) == [i \in DOMAIN xs |-> [f \in DOMAIN xs[i] \ {"id"} |-> xs[i][f]]]

-----------------------------------------------------------------------------
(* SpecRetrieve: retrieval from the distilled memory, by a client and by   *)
(* the pipeline with its memory options, over one identity.                *)

RetrieveInputs ==
    {TaggedMemoryInput("lesson", TxtAB, Some(80), <<1>>),
     TaggedMemoryInput("lesson", TxtABCDE, Some(25), <<2, 1>>),
     MemoryInput("lesson", TxtABCD, Some(50)),
     TaggedMemoryInput("warning", TxtZ, Some(60), <<2>>)}

MemoryQuery(type, tags, minConfidence, semanticQuery, similarityThreshold, limit) ==
    [limit |-> limit, minConfidence |-> minConfidence, semanticQuery |-> semanticQuery,
     similarityThreshold |-> similarityThreshold, tags |-> tags, type |-> type]

MemoryQueries ==
    {MemoryQuery(Undefined, Undefined, Undefined, Undefined, Undefined, Undefined),
     MemoryQuery(Some("lesson"), Undefined, Undefined, Some(TxtABC), Undefined, Some(1)),
     MemoryQuery(Undefined, Some(<<1>>), Some(30), Undefined, Undefined, Some(1)),
     MemoryQuery(Some("lesson"), Some(<<1, 2>>), Undefined, Undefined, Undefined, Some(2)),
     MemoryQuery(Undefined, Undefined, Some(30), Some(TxtABC), Some(78), Undefined)}

MemoryOptions(limitPerType, minConfidence, similarityThreshold) ==
    [PrepareInput(1, TxtABC, Undefined, Undefined)
       EXCEPT !.limitPerType = limitPerType,
              !.minConfidence = minConfidence,
              !.similarityThreshold = similarityThreshold]

PrepareInputs ==
    {MemoryOptions(Undefined, Undefined, Undefined),
     MemoryOptions(Some(1), Some(0), Some(78)),
     MemoryOptions(Some(0), Some(60), Some(0))}

NextRetrieve ==
    \/ SetupIdentity
    \/ \E input \in RetrieveInputs : MemoryRecord(input)
    \/ \E query \in MemoryQueries : MemoryRetrieve(query)
    \/ \E input \in PrepareInputs : PrepareContext(input)

SpecRetrieve == Init /\ [][NextRetrieve]_vars

\* a stored memory passes the filters the query supplies
PassesFilters(m, query) ==
    /\ IsDefined(query.type) => m.type = Get(query.type)
    /\ IsDefined(query.tags) => Range(Get(query.tags)) \subseteq Range(m.tags)
    /\ IsDefined(query.minConfidence) => m.confidence >= Get(query.minConfidence)
    /\ IsDefined(query.semanticQuery) =>
          FracGeq(ComputeSimilarity(Get(query.semanticQuery), m.content),
                  Hundredths(OrElse(query.similarityThreshold, 50)))

\* C29: memory.retrieve returns totalCount equal to the number of memories
\* passing all supplied filters (type, all-of tags, minConfidence, semantic
\* threshold) before the limit, and memories equal to the first min(limit,
\* totalCount) of them when a limit > 0 is given; with a semantic query the
\* order is the similarity ranking, highest score first, otherwise storage
\* order.
C29_RetrieveCountsBeforeLimit ==
    (lastCall.op = "memory.retrieve" /\ ~result.threw) =>
        LET query == lastCall.query
            passing == SelectSeq(memories, LAMBDA m : PassesFilters(m, query))
            found == result.value.memories
            score(m) == ComputeSimilarity(Get(query.semanticQuery), m.content)
        IN /\ result.value.totalCount = Len(passing)
           /\ Len(found) = IF IsDefined(query.limit) /\ Get(query.limit) > 0
                           THEN Min(Get(query.limit), Len(passing))
                           ELSE Len(passing)
           /\ Range(found) \subseteq Range(passing)
           /\ \A i, j \in DOMAIN found : i # j => found[i].id # found[j].id
           /\ IF IsDefined(query.semanticQuery)
              THEN /\ \A i, j \in DOMAIN found :
                         i < j => FracGeq(score(found[i]), score(found[j]))
                   /\ \A m \in Range(passing) \ Range(found) :
                         \A i \in DOMAIN found : FracGeq(score(found[i]), score(m))
              ELSE found = SubSeq(passing, 1, Len(found))

\* a semantic retrieve with limit 1 that passed two memories and returned
\* the one stored second, which scores higher
C29_Witness ==
    /\ lastCall.op = "memory.retrieve"
    /\ IsDefined(lastCall.query.semanticQuery)
    /\ lastCall.query.limit = Some(1)
    /\ result.value.totalCount = 2
    /\ Len(result.value.memories) = 1
    /\ Len(memories) = 2
    /\ result.value.memories[1] = memories[2]

\* C30: in every success result of prepareContext each of the lessons,
\* preferences and warnings lists holds only memories of that type with
\* confidence >= the effective minConfidence and similarity to the query >=
\* the effective similarityThreshold, and at most the effective limit
\* entries, an effective value being the request override when supplied
\* (including 0) and otherwise the engine default (10, 0.3, 0.5).
C30_ListsRespectEffectiveOptions ==
    (lastCall.op = "prepareContext" /\ SuccessShape(result)) =>
        LET input == lastCall.input
            limit == OrElse(input.limitPerType, 10)
            minConfidence == OrElse(input.minConfidence, 30)
            similarityThreshold == OrElse(input.similarityThreshold, 50)
            raw == result.context.rawMemories
            ofType(type) == SelectSeq(raw, LAMBDA m : m.type = type)
            view == result.context.memoryContext
        IN /\ \A i \in DOMAIN raw :
                 /\ raw[i].confidence >= minConfidence
                 /\ FracGeq(ComputeSimilarity(input.query, raw[i].content),
                            Hundredths(similarityThreshold))
                 /\ raw[i] \in Range(memories)
           /\ view.lessons = MemoryView(ofType("lesson"))
           /\ view.preferences = MemoryView(ofType("preference"))
           /\ view.warnings = MemoryView(ofType("warning"))
           /\ Len(view.lessons) <= limit
           /\ Len(view.preferences) <= limit
           /\ Len(view.warnings) <= limit

-----------------------------------------------------------------------------
(* SpecReplay: the sandbox runner over one identity and one lesson.  A run *)
(* captures the state, executes prepareContext and keeps input, state and  *)
(* outcome; between runs the clock moves and failure patterns are          *)
(* recorded.                                                               *)

\* snapshot.ts: what a state snapshot holds of the identity, the memories
\* and the failure patterns, without the timestamps
WithoutTimestamps(ms) ==
    [i \in DOMAIN ms |-> [f \in DOMAIN ms[i] \ {"createdAt", "lastDecayAt"} |-> ms[i][f]]]

CaptureIdentitySnapshot(identityId) ==
    LET loaded == LoadIdentity(identities, identityId)
    IN IF IsDefined(loaded)
       THEN Some([Get(loaded) EXCEPT !.values = heap[Get(loaded).values]])
       ELSE Undefined

CaptureStateSnapshot(identityId) ==
    [failures |-> FailureRetrieveResult(patterns, FailureQuery(Undefined, Undefined, Undefined)),
     identity |-> CaptureIdentitySnapshot(identityId),
     memories |-> WithoutTimestamps(
                     Retrieve(memories, MemoryQuery(Undefined, Undefined, Undefined,
                                                    Undefined, Undefined, Undefined)).memories)]

\* the outcome of a prepareContext run without the timestamps
Outcome(r) ==
    IF SuccessShape(r)
    THEN [r EXCEPT !.context.rawMemories = WithoutTimestamps(@)]
    ELSE r

\* the last run started from an equal state with an equal input
SameStart(input, stateBefore) ==
    /\ IsDefined(lastRun)
    /\ Get(lastRun).input = input
    /\ Get(lastRun).stateBefore = stateBefore

\* SandboxRunner.run: capture the state, execute prepareContext, keep the
\* output
SandboxRun(input) ==
    \E stateBefore \in {CaptureStateSnapshot(input.identityId)} :
    \E run \in {PrepareContextRun(identities, heap, patterns, memories, input)} :
       /\ Quiet
       /\ lastCall' = [op |-> "prepareContext", input |-> input]
       /\ result' = run.result
       /\ callLog' = run.log
       /\ heap' = run.heap
       /\ memories' = run.memories
       /\ lastRun' = Some([input |-> input,
                           stateBefore |-> stateBefore,
                           outcome |-> Outcome(run.result),
                           replayed |-> SameStart(input, stateBefore)])
       /\ UNCHANGED <<identities, versions, patterns, uuid, calls>>
       /\ UNCHANGED <<now, config, lastDecayRun>>

ReplayFailureInputs ==
    {FailureInput(TxtABC, "soft"), FailureInput(TxtABCDE, "hard")}

ReplayInputs ==
    {PrepareInput(1, TxtAB, Undefined, Undefined),
     PrepareInput(1, TxtABCDE, Some(CtxX), Undefined)}

NextReplay ==
    \/ SetupIdentity
    \/ SetupMemory
    \/ Ready /\ \E input \in ReplayFailureInputs : FailureRecord(input)
    \/ Ready /\ Tick
    \/ Ready /\ \E input \in ReplayInputs : SandboxRun(input)

SpecReplay == Init /\ [][NextReplay]_vars

-----------------------------------------------------------------------------
(* SpecLifecycle: record, reinforce, merge, applyDecay and cleanup of the  *)
(* distilled memory service and record of the failure memory service under *)
(* the default configuration, one call at a time; the clock leaps once,    *)
(* by more decay intervals than a decayFactor lasts.                       *)

\* the clock moves on by twenty-four decay intervals
LeapMs == 24 * DecayIntervalMs
Leap ==
    /\ Quiet
    /\ now < LeapMs
    /\ now' = now + LeapMs
    /\ UNCHANGED <<identities, versions, heap, patterns, memories, uuid, calls,
                   lastCall, result, callLog, config, lastDecayRun, lastRun>>

LifecycleInputs ==
    {MemoryInput("lesson", TxtABC, Some(100)),
     MemoryInput("warning", TxtABCDE, Some(0)),
     MemoryInput("preference", TxtABCD, Undefined),
     MemoryInput("lesson", TxtABC, Some(101))}

\* the ids of the first two memories recorded, stored or not
LifecycleIds == {1, 2}

NextLifecycle ==
    \/ Leap
    \/ \E input \in LifecycleInputs : MemoryRecord(input)
    \/ \E id \in LifecycleIds : MemoryReinforce(id)
    \/ \E keepId \in LifecycleIds, removeId \in LifecycleIds : MemoryMerge(keepId, removeId)
    \/ MemoryApplyDecay
    \/ MemoryCleanup
    \/ FailureRecord(FailureInput(TxtAB, "soft"))

SpecLifecycle == Init /\ [][NextLifecycle]_vars

\* C31: under the default service configuration, after any sequence of
\* record, reinforce, merge, applyDecay and cleanup calls every stored
\* memory has confidence in [0,1], decayFactor in [0,1] and
\* reinforcementCount >= 0, and every stored failure pattern has
\* occurrenceCount >= 1.
C31_StoredValuesInRange ==
    /\ \A i \in DOMAIN memories :
          /\ memories[i].confidence >= 0 /\ memories[i].confidence <= 100
          /\ memories[i].decayFactor >= 0 /\ memories[i].decayFactor <= 100
          /\ memories[i].reinforcementCount >= 0
    /\ \A i \in DOMAIN patterns : patterns[i].occurrenceCount >= 1

\* a memory at the upper end of the confidence range after a reinforcement
\* and one decayed to the lower end of the decayFactor range, next to a
\* recorded pattern
C31_Witness ==
    /\ \E i \in DOMAIN memories :
          memories[i].confidence = 100 /\ memories[i].reinforcementCount > 0
    /\ \E i \in DOMAIN memories : memories[i].decayFactor = 0
    /\ Len(patterns) > 0

C36_NoStoredDuplicates ==
    \A i, j \in DOMAIN memories :
        i # j => ~FracGeq(ComputeSimilarity(memories[i].content, memories[j].content),
                          Hundredths(config.duplicateThreshold))

\* two memories just below the duplicate threshold of each other are
\* stored, and a record call similar to both has reinforced one of them
C36_Witness ==
    /\ lastCall.op = "memory.record"
    /\ lastCall.input.content = TxtABCD
    /\ ~result.threw
    /\ result.value.reinforcementCount = 1
    /\ \E i, j \in DOMAIN memories :
          /\ memories[i].content = TxtABC
          /\ memories[j].content = TxtABCDE

-----------------------------------------------------------------------------
(* SpecTags: record, reinforce and merge of the distilled memory service   *)
(* and record of the failure memory service, called with tag lists in any  *)
(* order, one of them with a repeated tag.                                 *)

TagsInputs ==
    {TaggedMemoryInput("lesson", TxtABC, Undefined, <<2, 1>>),
     TaggedMemoryInput("warning", TxtABCDE, Undefined, <<3, 2>>),
     TaggedMemoryInput("preference", TxtZ, Undefined, <<2, 1, 2>>)}

TagsFailureInputs ==
    {[FailureInput(TxtAB, "soft") EXCEPT !.tags = Some(<<3, 1>>)],
     [FailureInput(TxtZ, "hard") EXCEPT !.tags = Some(<<1, 1>>)]}

NextTags ==
    \/ \E input \in TagsInputs : MemoryRecord(input)
    \/ \E id \in LifecycleIds : MemoryReinforce(id)
    \/ \E keepId \in LifecycleIds, removeId \in LifecycleIds : MemoryMerge(keepId, removeId)
    \/ \E input \in TagsFailureInputs : FailureRecord(input)

SpecTags == Init /\ [][NextTags]_vars

\* a tag list in strictly ascending order
SortedWithoutDuplicates(tags) ==
    \A i, j \in DOMAIN tags : i < j => tags[i] < tags[j]

\* C34: the tag list of every stored memory and every stored failure
\* pattern is sorted and free of duplicates after any sequence of record,
\* reinforce and merge calls, for every valid input tag list (including one
\* with repeated tags).
C34_StoredTagsSortedAndUnique ==
    /\ \A i \in DOMAIN memories : SortedWithoutDuplicates(memories[i].tags)
    /\ \A i \in DOMAIN patterns : SortedWithoutDuplicates(patterns[i].tags)

-----------------------------------------------------------------------------
(* SpecQuery: failure.retrieve over patterns that were recorded with tags  *)
(* and that may have been deactivated.                                     *)

QueryFailureInputs ==
    {[FailureInput(TxtAB, "soft") EXCEPT !.tags = Some(<<2, 1>>)],
     [FailureInput(TxtZ, "hard") EXCEPT !.tags = Some(<<1>>)]}

FilterQueries ==
    {FailureQuery(Some("soft"), Undefined, Undefined),
     FailureQuery(Some("soft"), Some(FALSE), Undefined),
     FailureQuery(Some("hard"), Some(TRUE), Undefined),
     [FailureQuery(Undefined, Undefined, Undefined) EXCEPT !.tags = Some(<<1>>)],
     [FailureQuery(Some("soft"), Undefined, Undefined) EXCEPT !.tags = Some(<<1, 2>>)],
     [FailureQuery(Undefined, Some(TRUE), Undefined) EXCEPT !.minOccurrences = Some(2)]}

NextQuery ==
    \/ \E input \in QueryFailureInputs : FailureRecord(input)
    \/ \E id \in PatternIds : FailureDeactivate(id)
    \/ \E query \in FilterQueries : FailureRetrieve(query)

SpecQuery == Init /\ [][NextQuery]_vars

\* the pattern satisfies every filter the query supplies
SatisfiesFilters(p, query) ==
    /\ IsDefined(query.severity) => p.severity = Get(query.severity)
    /\ IsDefined(query.tags) => IncludesAll(p.tags, Get(query.tags))
    /\ IsDefined(query.active) => p.active = Get(query.active)
    /\ IsDefined(query.minOccurrences) => p.occurrenceCount >= Get(query.minOccurrences)

\* C35: failure.retrieve(query) returns exactly the patterns of listAll()
\* that satisfy every supplied filter (severity, all-of tags, active flag,
\* minOccurrences), whichever indexed lookup is used first; in particular a
\* query with only a severity returns inactive patterns of that severity
\* too, and a query with a severity and active=false returns all inactive
\* patterns of that severity.
C35_RetrieveEqualsFilteredListing ==
    lastCall.op = "failure.retrieve" =>
        Range(result.value) =
            {patterns[i] : i \in {k \in DOMAIN patterns :
                                     SatisfiesFilters(patterns[k], lastCall.query)}}

-----------------------------------------------------------------------------
(* SpecFailureRace: two failure.record calls, one per caller, that overlap *)
(* at their awaits, on a store that holds one pattern.                     *)

\* record(), lines 268-276: validate, then storage.listAll and suspend
FailureRecordCall(p, input) ==
    /\ calls[p].pc = "idle"
    /\ uuid.failure > 0
    /\ IF ~ValidateRecordFailureInput(input)
       THEN /\ result' = Threw("Invalid failure input")
            /\ lastCall' = [op |-> "failure.record", input |-> input]
            /\ calls' = [calls EXCEPT ![p] = [pc |-> "record.thrown", input |-> input]]
       ELSE /\ calls' = [calls EXCEPT ![p] =
                           [pc |-> "record.listed", input |-> input,
                            existingPatterns |-> patterns]]
            /\ UNCHANGED <<result, lastCall>>
    /\ UNCHANGED <<identities, versions, heap, patterns, memories, uuid, callLog>>
    /\ UNCHANGED <<now, config, lastDecayRun, lastRun>>

\* record(), lines 277-323: resume after listAll, build the updated or the
\* new pattern from the listing, then storage.save and suspend
FailureRecordAfterList(p) ==
    LET frame == calls[p]
        outcome == FailureRecordOutcome(frame.existingPatterns, frame.input,
                                        uuid.failure + 1)
        created == outcome.id = uuid.failure + 1
    IN /\ frame.pc = "record.listed"
       /\ created => uuid.failure < MaxPatternCreates
       /\ patterns' = MapSet(patterns, outcome)
       /\ uuid' = IF created THEN [uuid EXCEPT !.failure = @ + 1] ELSE uuid
       /\ calls' = [calls EXCEPT ![p] =
                      [pc |-> "record.saved", input |-> frame.input,
                       pattern |-> outcome]]
       /\ UNCHANGED <<identities, versions, heap, memories, lastCall, result, callLog>>
       /\ UNCHANGED <<now, config, lastDecayRun, lastRun>>

\* record(), lines 304 and 324: resume after the save and return the
\* pattern; the caller makes no further call
FailureRecordReturn(p) ==
    LET frame == calls[p]
    IN /\ frame.pc = "record.saved"
       /\ result' = Returned(frame.pattern)
       /\ lastCall' = [op |-> "failure.record", input |-> frame.input]
       /\ calls' = [calls EXCEPT ![p] = [frame EXCEPT !.pc = "record.returned"]]
       /\ UNCHANGED <<identities, versions, heap, patterns, memories, uuid, callLog>>
       /\ UNCHANGED <<now, config, lastDecayRun, lastRun>>

\* the pattern the store holds before the two calls
StoredFailure == FailureInput(TxtAB, "soft")

RaceFailureInputs ==
    {FailureInput(TxtPadAB, "soft"), FailureInput(TxtABC, "hard"),
     FailureInput(TxtZ, "hard"), FailureInput(TxtBlank, "soft")}

NextFailureRace ==
    \/ uuid.failure = 0 /\ FailureRecord(StoredFailure)
    \/ \E p \in Procs, input \in RaceFailureInputs : FailureRecordCall(p, input)
    \/ \E p \in Procs : FailureRecordAfterList(p)
    \/ \E p \in Procs : FailureRecordReturn(p)

SpecFailureRace == Init /\ [][NextFailureRace]_vars

\* C37: when two failure.record calls that match the same stored pattern
\* as a duplicate interleave at their suspension points, both occurrences
\* are counted: the pattern's occurrenceCount ends at its starting value
\* + 2, and if either input has severity hard the pattern ends with
\* severity hard.
C37_InterleavedRecordsBothCount ==
    (/\ \A p \in Procs : calls[p].pc = "record.returned"
     /\ \A p \in Procs : IsDuplicateOf(calls[p].input.pattern, patterns[1])) =>
        /\ patterns[1].occurrenceCount = 1 + 2
        /\ (\E p \in Procs : calls[p].input.severity = "hard") =>
              patterns[1].severity = "hard"

-----------------------------------------------------------------------------
(* SpecStorageFault: identity.update of one caller over a storage whose    *)
(* saveVersion may reject.                                                 *)

\* update(), lines 255-266: storage.save has run, storage.saveVersion
\* rejects and the call throws what the storage threw
UpdateSaveVersionFails(p) ==
    LET frame == calls[p]
    IN /\ frame.pc = "update.saved"
       /\ result' = Threw("saveVersion failed")
       /\ lastCall' = [op |-> "identity.update", id |-> frame.id, input |-> frame.input]
       /\ calls' = [calls EXCEPT ![p] = IdleFrame]
       /\ UNCHANGED <<identities, versions, heap, patterns, memories, uuid, callLog>>
       /\ UNCHANGED <<now, config, lastDecayRun, lastRun>>

NextStorageFault ==
    \/ SetupIdentity
    \/ \E id \in {1, 2}, input \in RaceUpdateInputs \cup RegistryUpdateInputs :
          UpdateCall(1, id, input)
    \/ UpdateAfterLoad(1)
    \/ UpdateAfterSave(1)
    \/ UpdateSaveVersionFails(1)
    \/ UpdateReturn(1)

SpecStorageFault == Init /\ [][NextStorageFault]_vars

\* C38: identity.update commits the live record and its version snapshot
\* together: if the storage saveVersion step fails after the live record
\* was saved, the call fails and load(id) still returns the previous
\* version, so at every state with no call in flight every live identity
\* has a snapshot in its history whose version equals its own.
C38_LiveVersionHasSnapshot ==
    Quiet => \A id \in DOMAIN identities :
                \E n \in DOMAIN GetVersions(versions, id) :
                    GetVersions(versions, id)[n].version = identities[id].version

-----------------------------------------------------------------------------
(* getMatchingPatterns against checkBlocking, in SpecFailure.              *)

\* texts to look up in every state of the failure store
ProbeTexts == {TxtAB, TxtPadAB, TxtABC, TxtABCD, TxtABCDE, TxtZ, TxtBlank}

\* C39: for every text and every failure-store state, the set of patterns
\* returned by getMatchingPatterns(text) equals the set of matchedPatterns
\* returned by checkBlocking(text) with no context, given a similarity
\* provider whose findSimilar agrees with computeSimilarity; both contain
\* only active patterns.
C39_MatchingPatternsAgree ==
    /\ \A text \in ProbeTexts :
          LET matching == Range(GetMatchingPatterns(patterns, text))
              matched == Range(CheckBlocking(patterns, text, Undefined).matchedPatterns)
          IN /\ matching = matched
             /\ \A p \in matching : p.active
    /\ lastCall.op = "failure.getMatchingPatterns" =>
          Range(result.value) =
              Range(CheckBlocking(patterns, lastCall.text, Undefined).matchedPatterns)

\* getMatchingPatterns has returned a pattern that reaches the blocking
\* threshold below the duplicate threshold, and left out a deactivated
\* pattern equal to the text
C39_Witness ==
    /\ lastCall.op = "failure.getMatchingPatterns"
    /\ Len(result.value) = 1
    /\ result.value[1].pattern = TxtABC
    /\ \E i \in DOMAIN patterns :
          ~patterns[i].active /\ patterns[i].pattern = lastCall.text

====
